---- MODULE Spec2Model ----
(***************************************************************************)
(* Model of the job-tracker e-mail ingestion pipeline                      *)
(* (src/backend/workflow_pipeline): the dedup/merge engine and the         *)
(* persistence upserter of logic.py, the orchestrator of scheduler.py and  *)
(* the per-message loop of emails.py.                                      *)
(*                                                                         *)
(* Python strings are sequences of one-character strings, so that          *)
(* str.strip() and str.lower() are computed and not assumed.               *)
(***************************************************************************)
EXTENDS Integers, Sequences, FiniteSets, TLC

VARIABLES
    \* ---- _process_entries applied to one input list (SpecMerge)
    mApps,      \* the `applications` argument
    mUser,      \* the `user_email` argument
    mOut,       \* the value returned (or the exception raised)
    mPc         \* "call" before the call, "returned" after it

VARIABLES
    \* ---- insert_job_applications on PostgreSQL (Spec, SpecSeq)
    storage,    \* committed rows of job_applications
    pend,       \* per session: rows inserted by its open transaction
    ses,        \* per session: the frame of its insert_job_applications call
    clock,      \* calls started so far; a call's utcnow()
    faults,     \* storage operations that have failed so far (a select
                \* that fails again when retried counts once)
    \* ---- the record of the calls made one after another (SpecSeq)
    cur,        \* the arguments of the call in progress, storage at its start
    lastDone    \* the arguments of the call before it, if none of its
                \* storage operations failed and it returned by line 54

VARIABLES
    \* ---- scheduled_email_fetch (SpecSched, SpecSchedFair)
    cyc,        \* where scheduled_email_fetch is
    users,      \* the rows of TokenStore it read
    sem,        \* the value of its asyncio.Semaphore
    wpc,        \* per user: where its limited_worker task is
    mailbox     \* per user: the messages Gmail holds for the user

VARIABLES
    \* ---- fetch_and_classify_emails (SpecFetch)
    messages,       \* the messages the list call returned
    body,           \* the local variable `body`
    confirmations,  \* the list `confirmations`
    non_job_emails, \* the list `non_job_emails`
    fLog,           \* per message handled: what the iteration did
    fPc,            \* where fetch_and_classify_emails is
    fRet,           \* the value it returned
    laterPages      \* the pages of the window that Gmail holds behind the
                    \* nextPageToken of the list response (none: no token)

VARIABLES
    \* ---- clean_html_content applied twice to one text (SpecClean)
    cText,      \* the `content` argument of the first call
    cOnce,      \* what the first call returned
    cTwice,     \* what the call on cOnce returned
    cPc         \* "call", "once" after the first call, "twice" after both

VARIABLES
    \* ---- extract_body_from_parts applied to one part tree (SpecParts)
    pParts,     \* the `parts` argument
    pBody,      \* the value returned
    pPc         \* "call" before the call, "returned" after it

VARIABLES
    \* ---- backend/logic.py insert_job_applications (SpecLegacy); the table
    \* is `storage`
    lConfirmations, \* the `confirmations` argument
    lNew,           \* the objects added to the session and not yet flushed
    lCounts,        \* <<processed_count, skipped_count>>
    lLog,           \* per email handled: what the duplicate query returned
    lPc             \* "call", "loop", "commit", "returned" or "raised"

VARIABLES
    \* ---- EntityExtractor._extract_entities applied to one sequence of
    \* labelled tokens (SpecEntities)
    eTokens,    \* the tokens of the text with their predicted labels
    eEntities,  \* what the two calls of lines 205-206 returned
    ePc         \* "call" before the calls, "returned" after them

VARIABLES
    \* ---- cycles of scheduled_email_fetch that overlap, and /my-email-fetch
    \* (SpecOverlap)
    oCyc,       \* per cycle: "off", "gather" or "done"
    oSem,       \* per cycle: the value of the semaphore made at line 35
    oWpc,       \* per cycle and user: where the limited_worker task is
    oMy         \* per user: where the pipeline of /my-email-fetch is

entityVars == <<eTokens, eEntities, ePc>>
overlapVars == <<oCyc, oSem, oWpc, oMy>>
legacyVars == <<lConfirmations, lNew, lCounts, lLog, lPc>>
cleanVars == <<cText, cOnce, cTwice, cPc>>
partsVars == <<pParts, pBody, pPc>>
schedVars == <<cyc, users, sem, wpc, mailbox>>
fetchVars == <<messages, body, confirmations, non_job_emails, fLog, fPc, fRet,
               laterPages>>
mergeVars == <<mApps, mUser, mOut, mPc>>
dbVars == <<storage, pend, ses, clock, faults, cur, lastDone>>

vars == <<mApps, mUser, mOut, mPc,
          storage, pend, ses, clock, faults, cur, lastDone,
          cyc, users, sem, wpc, mailbox,
          messages, body, confirmations, non_job_emails, fLog, fPc, fRet,
          laterPages,
          cText, cOnce, cTwice, cPc,
          pParts, pBody, pPc,
          lConfirmations, lNew, lCounts, lLog, lPc,
          eTokens, eEntities, ePc,
          oCyc, oSem, oWpc, oMy>>

----------------------------------------------------------------------------
(* Bounds of the model *)

\* longest `applications` list handed to _process_entries in SpecMerge
MergeMaxLen == 3

\* calls of insert_job_applications in one behaviour
MaxCalls == 2

\* storage operations that fail in one behaviour
MaxFaults == 2

\* most rows of TokenStore (users) in one cycle
MaxUsers == 6

\* most tokens of a text handed to _extract_entities in SpecEntities
MaxTokens == 4

\* most rows of TokenStore (users) when cycles overlap in SpecOverlap
MaxOverlap == 3

\* most messages the list call returns
MaxMsgs == 2

\* most pieces a short text given to clean_html_content is made of
MaxPieces == 2

\* most parts at one level of a part tree given to extract_body_from_parts
MaxParts == 2

\* most emails in the list given to the legacy insert_job_applications
MaxEmails == 2

----------------------------------------------------------------------------
(* Python values: str, None, and dicts with optional keys *)

Str(s) == [t |-> "str", v |-> s]
None == [t |-> "none", v |-> <<>>]

\* the characters str.strip() removes and \s matches
Whitespace == {" ", "\t", "\n"}

\* str.lower() on one character
LowerChar(c) ==
    CASE c = "A" -> "a"
      [] c = "B" -> "b"
      [] c = "C" -> "c"
      [] c = "D" -> "d"
      [] c = "E" -> "e"
      [] c = "F" -> "f"
      [] c = "G" -> "g"
      [] c = "H" -> "h"
      [] c = "I" -> "i"
      [] c = "J" -> "j"
      [] c = "K" -> "k"
      [] c = "L" -> "l"
      [] c = "M" -> "m"
      [] c = "N" -> "n"
      [] c = "O" -> "o"
      [] c = "P" -> "p"
      [] c = "Q" -> "q"
      [] c = "R" -> "r"
      [] c = "S" -> "s"
      [] c = "T" -> "t"
      [] c = "U" -> "u"
      [] c = "V" -> "v"
      [] c = "W" -> "w"
      [] c = "X" -> "x"
      [] c = "Y" -> "y"
      [] c = "Z" -> "z"
      [] OTHER -> c

\* str.lower()
lower(s) == [i \in 1..Len(s) |-> LowerChar(s[i])]

RECURSIVE lstrip(_)
lstrip(s) ==
    IF s # <<>> /\ Head(s) \in Whitespace THEN lstrip(Tail(s)) ELSE s

RECURSIVE rstrip(_)
rstrip(s) ==
    IF s # <<>> /\ s[Len(s)] \in Whitespace
    THEN rstrip(SubSeq(s, 1, Len(s) - 1))
    ELSE s

\* str.strip()
strip(s) == rstrip(lstrip(s))

\* dict.get(key, "")
Get(app, key) == IF key \in DOMAIN app THEN app[key] ELSE Str(<<>>)

----------------------------------------------------------------------------
(* logic.py: configuration *)

\* DB_CONFIG["unknown_placeholder"] = "unknown position"
unknown_placeholder ==
    <<"u","n","k","n","o","w","n"," ","p","o","s","i","t","i","o","n">>

\* DB_CONFIG["batch_size"]
batch_size == 50

\* DB_CONFIG["commit_interval"]
commit_interval == 25

\* DB_CONFIG["max_retries"]
max_retries == 3

\* a retry controller that allows one attempt more than max_retries
stop_after_one_more(attempt) == attempt > max_retries

\* line 89: stop=stop_after_attempt(DB_CONFIG["max_retries"]), asked after
\* the attempt numbered `attempt` has raised
stop_after_attempt(attempt) == attempt >= max_retries

----------------------------------------------------------------------------
(* logic.py: _process_entries *)

\* company_map.get(company_key) finding nothing
MapIndexNone(company_map, company_key) == 0

\* index of company_key in company_map (a dict in insertion order), 0 if absent
MapIndex(company_map, company_key) ==
    IF \E i \in 1..Len(company_map) : company_map[i].company = company_key
    THEN CHOOSE i \in 1..Len(company_map) : company_map[i].company = company_key
    ELSE 0

NewEntry(user_email, company_key, job_title, now) ==
    [user_email |-> user_email, company |-> company_key,
     job_title |-> job_title, applied_date |-> now]

\* lines 76-78 with the first-seen rule lost: any known title replaces the
\* entry kept so far
KeepBestLastWins(company_map, existing, job_title) ==
    \/ existing = 0
    \/ job_title # unknown_placeholder

\* lines 76-78 with the preference for known titles lost: the first entry of
\* a company is kept whatever its title
KeepBestFirstOnly(company_map, existing, job_title) ==
    existing = 0

\* lines 76-78: `not existing or (existing is the placeholder and the new
\* title is not)`; existing = 0 stands for company_map.get() returning None
KeepBest(company_map, existing, job_title) ==
    \/ existing = 0
    \/ /\ company_map[existing].job_title = unknown_placeholder
       /\ job_title # unknown_placeholder

\* line 73 without the placeholder
TitleAsGiven(raw_title) == raw_title

\* line 73: job_title = raw_title or DB_CONFIG["unknown_placeholder"]
TitleOrPlaceholder(raw_title) ==
    IF raw_title # <<>> THEN raw_title ELSE unknown_placeholder

\* one iteration of the loop of lines 65-84 on `app`: the new company_map,
\* or raised when .strip() is called on None (AttributeError, lines 66-67)
ProcessOne(company_map, app, user_email, now) ==
    IF Get(app, "company").t = "none" \/ Get(app, "job_title").t = "none"
    THEN [raised |-> TRUE, apps |-> <<>>]
    ELSE
      LET raw_company == strip(Get(app, "company").v)
          raw_title   == lower(strip(Get(app, "job_title").v))
          company_key == lower(raw_company)
          job_title   == TitleOrPlaceholder(raw_title)
          existing    == MapIndex(company_map, company_key)
          entry       == NewEntry(user_email, company_key, job_title, now)
      IN  [raised |-> FALSE,
           apps |->
             IF raw_company = <<>> THEN company_map
             ELSE IF KeepBest(company_map, existing, job_title)
             THEN IF existing = 0
                  THEN Append(company_map, entry)
                  ELSE [company_map EXCEPT ![existing] = entry]
             ELSE company_map]

RECURSIVE ProcessLoop(_, _, _, _, _)
ProcessLoop(applications, i, company_map, user_email, now) ==
    IF i > Len(applications)
    THEN [raised |-> FALSE, apps |-> company_map]
    ELSE LET m == ProcessOne(company_map, applications[i], user_email, now)
         IN  IF m.raised
             THEN m
             ELSE ProcessLoop(applications, i + 1, m.apps, user_email, now)

\* _process_entries(applications, user_email), `now` being utcnow()
_process_entries(applications, user_email, now) ==
    ProcessLoop(applications, 1, <<>>, user_email, now)

----------------------------------------------------------------------------
(* Inputs *)

Users == {"ann@x", "bob@x"}

Acme == <<"A","c","m","e">>
Gem  == <<"G","e","m">>
SWE  == <<"S","W","E">>
QA   == <<"Q","A">>

\* `applications` entries handed to _process_entries: companies and titles in
\* several spellings, missing keys, empty strings and None
MergeEntries ==
    { [company |-> Str(Acme), job_title |-> Str(SWE)],
      [company |-> Str(<<" ","A","C","M","E">>), job_title |-> Str(<<"Q","A"," ">>)],
      [company |-> Str(<<"a","c","m","e">>)],
      [company |-> Str(<<"A","c","m","e"," ">>), job_title |-> Str(<<>>)],
      [company |-> Str(<<"A","C","M","E">>),
       job_title |-> Str(<<"U","n","k","n","o","w","n"," ","P","o","s","i","t","i","o","n">>)],
      [company |-> Str(Acme), job_title |-> Str(<<"s","w","e">>)],
      [company |-> Str(Gem), job_title |-> Str(QA)],
      [company |-> Str(Gem), job_title |-> Str(<<" ">>)],
      [job_title |-> Str(SWE)],
      [company |-> Str(<<" ">>), job_title |-> Str(QA)],
      [company |-> None, job_title |-> Str(SWE)],
      [company |-> Str(Acme), job_title |-> None] }

SeqsUpTo(S, n) == UNION { [1..k -> S] : k \in 0..n }

Range(f) == { f[i] : i \in DOMAIN f }

NotCalled == [raised |-> FALSE, apps |-> <<>>]

----------------------------------------------------------------------------
(* database.py: the job_applications table and its sessions *)

\* each pipeline run opens its own AsyncSession (scheduler.py line 16); the
\* model has two, so that two transactions can be open at the same time
Sessions == {1, 2}

\* a unique constraint that also covers applied_date
KeyWithDate(r) == <<r.user_email, r.company, r.job_title, r.applied_date>>

\* UniqueConstraint("user_email", "company", "job_title")
Key(r) == <<r.user_email, r.company, r.job_title>>

Keys(rows) == { Key(r) : r \in rows }

\* what a statement of session p reads (READ COMMITTED): the committed rows
\* and the rows of its own transaction
Visible(p) == storage \cup pend[p]

\* rows of the open transactions of the other sessions
OthersPending(p) == UNION { pend[q] : q \in Sessions \ {p} }

----------------------------------------------------------------------------
(* logic.py: _filter_conflicting_unknowns, _execute_batch_insert *)

known_entries(batch) ==
    SelectSeq(batch, LAMBDA e : e.job_title # unknown_placeholder)

unknown_entries(batch) ==
    SelectSeq(batch, LAMBDA e : e.job_title = unknown_placeholder)

\* lines 126-134 with no condition on user_email
ExistingCompaniesAnyUser(rows, unknowns) ==
    { r.company : r \in { x \in rows :
        /\ x.company \in { e.company : e \in Range(unknowns) }
        /\ x.job_title # unknown_placeholder } }

\* lines 126-134 with the query returning nothing
ExistingCompaniesNone(rows, unknowns) == {}

\* lines 124-134: the companies, among those of the unknown entries, for
\* which the user already has a row with a known title
ExistingCompanies(rows, unknowns) ==
    { r.company : r \in { x \in rows :
        /\ x.user_email = unknowns[1].user_email
        /\ x.company \in { e.company : e \in Range(unknowns) }
        /\ x.job_title # unknown_placeholder } }

\* lines 137-140
_filter_conflicting_unknowns(rows, unknowns) ==
    SelectSeq(unknowns,
              LAMBDA e : e.company \notin ExistingCompanies(rows, unknowns))

\* INSERT ... VALUES (batch) with no ON CONFLICT clause and no constraint:
\* every row is added
InsertedRowsNoConstraint(rows, batch) == 1..Len(batch)

\* INSERT ... VALUES (batch) ON CONFLICT ON CONSTRAINT uix_user_company_job
\* DO NOTHING (lines 145-152): the indexes of the rows of batch it adds, a
\* row being skipped when its key is in `rows` or earlier in the statement
InsertedRows(rows, batch) ==
    { i \in 1..Len(batch) :
        /\ Key(batch[i]) \notin Keys(rows)
        /\ \A j \in 1..(i - 1) : Key(batch[j]) # Key(batch[i]) }

\* the statement reporting every row of the batch as affected
rowcountOfBatch(added, batch) == Len(batch)

\* line 153: result.rowcount, the rows the statement added
rowcount(added, batch) == Cardinality(added)

----------------------------------------------------------------------------
(* logic.py: insert_job_applications, one step per awaited storage call *)

Min2(a, b) == IF a <= b THEN a ELSE b

\* valid_apps[batch_idx : batch_idx + batch_size]
Chunk(valid, batch_idx) ==
    SubSeq(valid, batch_idx + 1, Min2(batch_idx + batch_size, Len(valid)))

\* n_apps is len(applications); clean: no storage operation of the call has
\* failed and _process_entries has not raised; cause: what raised the
\* exception that the handler of line 56 is about to handle
IdleFrame ==
    [pc |-> "idle", user |-> "", n_apps |-> 0, valid |-> <<>>,
     batch_idx |-> 0, total |-> 0, attempt |-> 0, final |-> <<>>,
     clean |-> TRUE, ret |-> <<0, 0>>, path |-> "none", cause |-> "none"]

\* cur: the call in progress or just returned: its session, its arguments,
\* storage when it started, and whether it repeats the call before it
NoCall == [p |-> 1, user |-> "", apps |-> <<>>, snap |-> {}, repeat |-> FALSE]

\* lastDone: ok when the call before completed with no failed operation
NoneDone == [ok |-> FALSE, user |-> "", apps |-> <<>>]

Done(c) == [ok |-> TRUE, user |-> c.user, apps |-> c.apps]

\* the frame at the start of _process_batch_with_retry on the chunk at
\* batch_idx (lines 99-116): the select runs only when there are unknown
\* entries
EnterBatch(f, batch_idx) ==
    LET batch == Chunk(f.valid, batch_idx)
    IN  [f EXCEPT !.batch_idx = batch_idx,
                  !.attempt = 1,
                  !.final = known_entries(batch),
                  !.pc = IF unknown_entries(batch) # <<>> THEN "filter"
                         ELSE "insert"]

\* the loop header of line 40 after the chunk at f.batch_idx
NextBatch(f) ==
    IF f.batch_idx + batch_size < Len(f.valid)
    THEN EnterBatch(f, f.batch_idx + batch_size)
    ELSE [f EXCEPT !.pc = "final_commit"]

\* lines 42-47 without the intermediate commit
AfterBatchNoCommit(f, processed) ==
    NextBatch([f EXCEPT !.total = f.total + processed])

\* lines 42-47: _process_batch_with_retry has returned `processed`
AfterBatch(f, processed) ==
    LET g == [f EXCEPT !.total = f.total + processed]
    IN  IF f.batch_idx % commit_interval = 0
        THEN [g EXCEPT !.pc = "commit"]
        ELSE NextBatch(g)

\* the function returns and its frame is gone; what it returned and the
\* return statement it left by are kept
Return(f, inserted, skipped, path) ==
    [IdleFrame EXCEPT !.ret = <<inserted, skipped>>, !.path = path]

CanFail == faults < MaxFaults

\* lines 28-38: the call up to its first awaited storage operation
Call(p, u, apps) ==
    /\ ses[p].pc = "idle"
    /\ \A q \in Sessions : q < p => ses[q].pc # "idle"
    /\ clock < MaxCalls
    /\ clock' = clock + 1
    /\ LET f == [IdleFrame EXCEPT !.user = u, !.n_apps = Len(apps)]
           pe == _process_entries(apps, u, clock + 1)
       IN  ses' = [ses EXCEPT ![p] =
             IF apps = <<>> THEN Return(f, 0, 0, "empty")
             ELSE IF pe.raised
             THEN [f EXCEPT !.pc = "rollback", !.clean = FALSE,
                            !.cause = "entries"]
             ELSE IF pe.apps = <<>>
                  THEN [f EXCEPT !.valid = pe.apps, !.pc = "final_commit"]
             ELSE EnterBatch([f EXCEPT !.valid = pe.apps], 0)]
    /\ UNCHANGED <<storage, pend, faults>>
    /\ UNCHANGED <<mergeVars, cleanVars, partsVars, legacyVars, schedVars, fetchVars, entityVars, overlapVars>>

\* lines 110-116: the select of _filter_conflicting_unknowns answers
FilterOk(p) ==
    /\ ses[p].pc = "filter"
    /\ LET f == ses[p]
           kept == _filter_conflicting_unknowns(
                      Visible(p), unknown_entries(Chunk(f.valid, f.batch_idx)))
           final_batch == f.final \o kept
       IN  ses' = [ses EXCEPT ![p] =
             IF final_batch = <<>> THEN AfterBatch(f, 0)
             ELSE [f EXCEPT !.final = final_batch, !.pc = "insert"]]
    /\ UNCHANGED <<storage, pend, clock, faults, cur, lastDone>>
    /\ UNCHANGED <<mergeVars, cleanVars, partsVars, legacyVars, schedVars, fetchVars, entityVars, overlapVars>>

\* lines 118-120 and the @retry of lines 88-96: the select raises; the batch
\* is attempted again until max_retries attempts have failed.  A select that
\* has failed can fail again on each of its retries, and counts once.
FilterFail(p) ==
    /\ ses[p].pc = "filter"
    /\ CanFail \/ ses[p].attempt > 1
    /\ faults' = IF ses[p].attempt = 1 THEN faults + 1 ELSE faults
    /\ LET f == [ses[p] EXCEPT !.clean = FALSE]
       IN  ses' = [ses EXCEPT ![p] =
             IF ~stop_after_attempt(f.attempt)
             THEN [EnterBatch(f, f.batch_idx) EXCEPT !.attempt = f.attempt + 1]
             ELSE [f EXCEPT !.pc = "rollback", !.cause = "filter"]]
    /\ UNCHANGED <<storage, pend, clock, cur, lastDone>>
    /\ UNCHANGED <<mergeVars, cleanVars, partsVars, legacyVars, schedVars, fetchVars, entityVars, overlapVars>>

\* lines 145-153: the insert statement runs; it waits while a row of the
\* batch conflicts with a row of another open transaction
InsertOk(p) ==
    /\ ses[p].pc = "insert"
    /\ Keys(Range(ses[p].final)) \cap Keys(OthersPending(p)) = {}
    /\ LET f == ses[p]
           added == InsertedRows(Visible(p), f.final)
       IN  /\ pend' = [pend EXCEPT ![p] = @ \cup { f.final[i] : i \in added }]
           /\ ses' = [ses EXCEPT ![p] = AfterBatch(f, rowcount(added, f.final))]
    /\ UNCHANGED <<storage, clock, faults, cur, lastDone>>
    /\ UNCHANGED <<mergeVars, cleanVars, partsVars, legacyVars, schedVars, fetchVars, entityVars, overlapVars>>

\* lines 155-156: the insert statement raises
InsertFail(p) ==
    /\ ses[p].pc = "insert"
    /\ CanFail
    /\ faults' = faults + 1
    /\ ses' = [ses EXCEPT ![p] = [@ EXCEPT !.pc = "rollback_insert",
                                           !.clean = FALSE]]
    /\ UNCHANGED <<storage, pend, clock, cur, lastDone>>
    /\ UNCHANGED <<mergeVars, cleanVars, partsVars, legacyVars, schedVars, fetchVars, entityVars, overlapVars>>

\* a rollback on a session that all pipelines share: it discards the
\* uncommitted rows of every pipeline
RollbackInsertShared(p) ==
    /\ ses[p].pc = "rollback_insert"
    /\ pend' = [q \in Sessions |-> {}]
    /\ ses' = [ses EXCEPT ![p] = AfterBatch(ses[p], 0)]
    /\ UNCHANGED <<storage, clock, faults, cur, lastDone>>
    /\ UNCHANGED <<mergeVars, cleanVars, partsVars, legacyVars, schedVars, fetchVars, entityVars, overlapVars>>

\* lines 157-158: await db.rollback(); return 0
RollbackInsert(p) ==
    /\ ses[p].pc = "rollback_insert"
    /\ pend' = [pend EXCEPT ![p] = {}]
    /\ ses' = [ses EXCEPT ![p] = AfterBatch(ses[p], 0)]
    /\ UNCHANGED <<storage, clock, faults, cur, lastDone>>
    /\ UNCHANGED <<mergeVars, cleanVars, partsVars, legacyVars, schedVars, fetchVars, entityVars, overlapVars>>

\* lines 46-47: the intermediate commit
CommitOk(p) ==
    /\ ses[p].pc = "commit"
    /\ storage' = storage \cup pend[p]
    /\ pend' = [pend EXCEPT ![p] = {}]
    /\ ses' = [ses EXCEPT ![p] = NextBatch(ses[p])]
    /\ UNCHANGED <<clock, faults, cur, lastDone>>
    /\ UNCHANGED <<mergeVars, cleanVars, partsVars, legacyVars, schedVars, fetchVars, entityVars, overlapVars>>

\* line 47 raises: control goes to the handler of line 56
CommitFail(p) ==
    /\ ses[p].pc = "commit"
    /\ CanFail
    /\ faults' = faults + 1
    /\ ses' = [ses EXCEPT ![p] = [@ EXCEPT !.pc = "rollback", !.clean = FALSE,
                                           !.cause = "commit"]]
    /\ UNCHANGED <<storage, pend, clock, cur, lastDone>>
    /\ UNCHANGED <<mergeVars, cleanVars, partsVars, legacyVars, schedVars, fetchVars, entityVars, overlapVars>>

\* lines 50-54: the final commit and the normal return
FinalCommitOk(p) ==
    /\ ses[p].pc = "final_commit"
    /\ storage' = storage \cup pend[p]
    /\ pend' = [pend EXCEPT ![p] = {}]
    /\ LET f == ses[p]
       IN  /\ ses' = [ses EXCEPT ![p] =
                 Return(f, f.total, Len(f.valid) - f.total, "normal")]
           /\ lastDone' = IF f.clean THEN Done(cur) ELSE NoneDone
    /\ UNCHANGED <<clock, faults, cur>>
    /\ UNCHANGED <<mergeVars, cleanVars, partsVars, legacyVars, schedVars, fetchVars, entityVars, overlapVars>>

\* line 50 raises: control goes to the handler of line 56
FinalCommitFail(p) ==
    /\ ses[p].pc = "final_commit"
    /\ CanFail
    /\ faults' = faults + 1
    /\ ses' = [ses EXCEPT ![p] = [@ EXCEPT !.pc = "rollback", !.clean = FALSE,
                                           !.cause = "final_commit"]]
    /\ UNCHANGED <<storage, pend, clock, cur, lastDone>>
    /\ UNCHANGED <<mergeVars, cleanVars, partsVars, legacyVars, schedVars, fetchVars, entityVars, overlapVars>>

\* lines 56-59: await db.rollback(); return 0, len(applications)
Rollback(p) ==
    /\ ses[p].pc = "rollback"
    /\ pend' = [pend EXCEPT ![p] = {}]
    /\ ses' = [ses EXCEPT ![p] = Return(ses[p], 0, ses[p].n_apps, "except")]
    /\ lastDone' = NoneDone
    /\ UNCHANGED <<storage, clock, faults, cur>>
    /\ UNCHANGED <<mergeVars, cleanVars, partsVars, legacyVars, schedVars, fetchVars, entityVars, overlapVars>>

\* the `applications` lists handed to insert_job_applications: empty, one
\* known title, no title, two companies, a company without title merged
\* with its titled entry, an entry without company, a None company
DbBatches ==
    { <<>>,
      << [company |-> Str(Acme), job_title |-> Str(SWE)] >>,
      << [company |-> Str(<<" ","A","C","M","E">>)] >>,
      << [company |-> Str(<<"a","c","m","e">>), job_title |-> Str(QA)] >>,
      << [company |-> Str(Acme), job_title |-> Str(SWE)],
         [company |-> Str(Gem), job_title |-> Str(<<" ">>)] >>,
      << [company |-> Str(<<" ","A","C","M","E">>)],
         [company |-> Str(Gem), job_title |-> Str(QA)] >>,
      << [company |-> Str(<<" ","A","C","M","E">>)],
         [company |-> Str(<<"a","c","m","e">>), job_title |-> Str(QA)] >>,
      << [company |-> Str(<<" ">>), job_title |-> Str(QA)] >>,
      << [company |-> None, job_title |-> Str(SWE)],
         [company |-> Str(Acme), job_title |-> Str(SWE)] >> }

DigitChars == <<"0","1","2","3","4","5","6","7","8","9">>

\* the name of the i-th company of a long list
Numbered(i) == <<"c", DigitChars[(i \div 10) + 1], DigitChars[(i % 10) + 1]>>

\* a list of n entries of n companies, those of `untitled` without a title
ManyEntries(n, untitled) ==
    [i \in 1..n |->
        IF i \in untitled
        THEN [company |-> Str(Numbered(i))]
        ELSE [company |-> Str(Numbered(i)), job_title |-> Str(SWE)]]

\* `applications` lists longer than batch_size: one entry more than a chunk,
\* the same with the last entry untitled, and two entries more with the
\* first and the last untitled
ChunkBatches ==
    { ManyEntries(batch_size + 1, {}),
      ManyEntries(batch_size + 1, {batch_size + 1}),
      ManyEntries(batch_size + 2, {1, batch_size + 2}) }

----------------------------------------------------------------------------
(* emails.py: the text functions *)

Lowercase ==
    {"a","b","c","d","e","f","g","h","i","j","k","l","m",
     "n","o","p","q","r","s","t","u","v","w","x","y","z"}

Uppercase ==
    {"A","B","C","D","E","F","G","H","I","J","K","L","M",
     "N","O","P","Q","R","S","T","U","V","W","X","Y","Z"}

Digits == {"0","1","2","3","4","5","6","7","8","9"}

\* \w of the re module
IsWord(c) == c \in Lowercase \cup Uppercase \cup Digits \cup {"_"}

\* CLEANING_CONFIG["truncate_length"]
truncate_length == 1000

\* the alternatives of REJECTION_PATTERNS (lines 40-52), optional groups
\* written out
RejectionPhrases ==
    { <<"r","e","j","e","c","t","i","o","n">>,
      <<"d","e","c","l","i","n","e","d">>,
      <<"n","o","t"," ","s","e","l","e","c","t","e","d">>,
      <<"u","n","f","o","r","t","u","n","a","t","e","l","y">>,
      <<"u","n","a","b","l","e"," ","t","o"," ","p","r","o","c","e","e",
      "d">>,
      <<"r","e","g","r","e","t"," ","t","o"," ","i","n","f","o","r","m">>,
      <<"m","o","v","e"," ","f","o","r","w","a","r","d">>,
      <<"o","t","h","e","r"," ","c","a","n","d","i","d","a","t","e","s">>,
      <<"o","t","h","e","r"," ","q","u","a","l","i","f","i","e","d"," ","c",
      "a","n","d","i","d","a","t","e","s">>,
      <<"p","o","s","i","t","i","o","n"," ","f","i","l","l","e","d">>,
      <<"p","o","s","i","t","i","o","n"," ","h","a","s"," ","b","e","e","n",
      " ","f","i","l","l","e","d">>,
      <<"r","e","j","e","c","t","e","d">>,
      <<"n","o","t"," ","m","o","v","i","n","g"," ","f","o","r","w","a","r",
      "d">>,
      <<"c","a","n","d","i","d","a","t","e"," ","p","o","o","l">>,
      <<"w","e","'","v","e"," ","d","e","c","i","d","e","d">>,
      <<"w","e"," ","h","a","v","e"," ","d","e","c","i","d","e","d">>,
      <<"a","f","t","e","r"," ","c","a","r","e","f","u","l"," ","c","o","n",
      "s","i","d","e","r","a","t","i","o","n">>,
      <<"a","l","t","h","o","u","g","h"," ","w","e"," ","w","e","r","e"," ",
      "i","m","p","r","e","s","s","e","d">>,
      <<"p","u","r","s","u","e"," ","o","t","h","e","r"," ","c","a","n","d",
      "i","d","a","t","e","s">>,
      <<"w","i","s","h"," ","y","o","u"," ","l","u","c","k"," ","i","n"," ",
      "y","o","u","r"," ","s","e","a","r","c","h">>,
      <<"w","i","s","h"," ","y","o","u"," ","l","u","c","k"," ","i","n"," ",
      "y","o","u","r"," ","j","o","b"," ","s","e","a","r","c","h">>,
      <<"w","i","s","h"," ","y","o","u"," ","s","u","c","c","e","s","s"," ",
      "i","n"," ","y","o","u","r"," ","s","e","a","r","c","h">>,
      <<"w","i","s","h"," ","y","o","u"," ","s","u","c","c","e","s","s"," ",
      "i","n"," ","y","o","u","r"," ","j","o","b"," ","s","e","a","r",
      "c","h">>,
      <<"d","o","e","s"," ","n","o","t"," ","a","l","i","g","n"," ","w","i",
      "t","h"," ","o","u","r"," ","n","e","e","d","s">>,
      <<"d","o","e","s"," ","n","o","t"," ","a","l","i","g","n"," ","t","o",
      " ","o","u","r"," ","n","e","e","d","s">>,
      <<"n","o","t"," ","a","l","i","g","n"," ","w","i","t","h"," ","o","u",
      "r"," ","n","e","e","d","s">>,
      <<"n","o","t"," ","a","l","i","g","n"," ","t","o"," ","o","u","r"," ",
      "n","e","e","d","s">> }

\* \b( ... )\b matches `phrase` at position i of `content`: the phrase begins
\* and ends with a word character, so \b asks for no word character on the
\* other side
MatchesAt(content, phrase, i) ==
    /\ content[i] = phrase[1]
    /\ i + Len(phrase) - 1 <= Len(content)
    /\ SubSeq(content, i, i + Len(phrase) - 1) = phrase
    /\ (i = 1 \/ ~IsWord(content[i - 1]))
    /\ (i + Len(phrase) > Len(content) \/ ~IsWord(content[i + Len(phrase)]))

\* REJECTION_PATTERNS.search(content)
search(content) ==
    \E i \in 1..Len(content) :
        \E phrase \in RejectionPhrases : MatchesAt(content, phrase, i)

\* is_rejection, lines 149-152
is_rejection(subject, text) ==
    LET content == lower(subject \o <<" ">> \o text)
    IN  search(content)

\* the elements removed with their content (line 102); meta, link and img
\* hold no content
DecomposedElements ==
    { <<"s","c","r","i","p","t">>, <<"s","t","y","l","e">>,
      <<"h","e","a","d">>, <<"b","u","t","t","o","n">> }

LeastOf(S) == CHOOSE x \in S : \A y \in S : x <= y

GreatestOf(S) == CHOOSE x \in S : \A y \in S : x >= y

\* str.find(c, i), 1-based; 0 when there is none
Find(s, c, i) ==
    LET J == { j \in i..Len(s) : s[j] = c }
    IN  IF J = {} THEN 0 ELSE LeastOf(J)

IsNonSpace(c) == c \notin Whitespace

\* the last position of the run of non-space characters that holds position i
RunEnd(s, i) ==
    LET W == { k \in i..Len(s) : s[k] \in Whitespace }
    IN  IF W = {} THEN Len(s) ELSE LeastOf(W) - 1

\* the first position of that run
RunStart(s, i) ==
    LET W == { k \in 1..i : s[k] \in Whitespace }
    IN  IF W = {} THEN 1 ELSE GreatestOf(W) + 1

\* the leading word characters of s
TakeWord(s) ==
    LET N == { k \in 1..Len(s) : ~IsWord(s[k]) }
    IN  SubSeq(s, 1, IF N = {} THEN Len(s) ELSE LeastOf(N) - 1)

IsCloseTag(tag) == tag # <<>> /\ Head(tag) = "/"

\* the element name of the text between "<" and ">"
TagName(tag) ==
    lower(TakeWord(IF IsCloseTag(tag) THEN Tail(tag) ELSE tag))

\* where a tag starts: a "<" followed by a letter or "/" and closed by a ">"
TagStarts(s) ==
    { i \in 1..(Len(s) - 1) :
        /\ s[i] = "<"
        /\ s[i + 1] \in Lowercase \cup Uppercase \cup {"/"}
        /\ Find(s, ">", i) # 0 }

\* BeautifulSoup(content, "html.parser") with lines 96-105: the text nodes
\* of the document from position i on, joined by " ", without the decomposed
\* elements; `inside` is the name of the decomposed element being skipped,
\* <<>> outside of one.  The tags of an <a> element go like any other tag,
\* which leaves its text followed by a separator (lines 96-99).
RECURSIVE get_text(_, _, _)
get_text(s, i, inside) ==
    LET starts == { a \in TagStarts(s) : a >= i }
    IN  IF starts = {}
        THEN IF inside # <<>> THEN <<>> ELSE SubSeq(s, i, Len(s))
        ELSE LET a == LeastOf(starts)
                 j == Find(s, ">", a)
                 tag == SubSeq(s, a + 1, j - 1)
                 text == SubSeq(s, i, a - 1)
             IN  IF inside # <<>>
                 THEN IF IsCloseTag(tag) /\ TagName(tag) = inside
                      THEN <<" ">> \o get_text(s, j + 1, <<>>)
                      ELSE get_text(s, j + 1, inside)
                 ELSE IF /\ ~IsCloseTag(tag)
                         /\ TagName(tag) \in DecomposedElements
                      THEN text \o get_text(s, j + 1, TagName(tag))
                      ELSE text \o <<" ">> \o get_text(s, j + 1, <<>>)

\* the character references of the model's texts
Entities ==
    { [ref |-> <<"&","a","m","p",";">>, ch |-> "&"],
      [ref |-> <<"&","l","t",";">>, ch |-> "<"],
      [ref |-> <<"&","g","t",";">>, ch |-> ">"] }

EntityAt(s, i) ==
    { e \in Entities :
        /\ i + Len(e.ref) - 1 <= Len(s)
        /\ SubSeq(s, i, i + Len(e.ref) - 1) = e.ref }

\* html.unescape (line 106); the parser does the same to the text nodes
RECURSIVE unescape(_)
unescape(s) ==
    LET at == { i \in 1..Len(s) : s[i] = "&" /\ EntityAt(s, i) # {} }
    IN  IF at = {} THEN s
        ELSE LET i == LeastOf(at)
                 e == CHOOSE e \in EntityAt(s, i) : TRUE
             IN  SubSeq(s, 1, i - 1) \o <<e.ch>>
                 \o unescape(SubSeq(s, i + Len(e.ref), Len(s)))

\* re.sub(r'http\S+', ' ', text, flags=re.IGNORECASE)
RECURSIVE SubUrls(_)
SubUrls(s) ==
    LET at == { i \in 1..(Len(s) - 4) :
                  /\ lower(SubSeq(s, i, i + 3)) = <<"h","t","t","p">>
                  /\ IsNonSpace(s[i + 4]) }
    IN  IF at = {} THEN s
        ELSE LET i == LeastOf(at)
             IN  SubSeq(s, 1, i - 1) \o <<" ">>
                 \o SubUrls(SubSeq(s, RunEnd(s, i) + 1, Len(s)))

\* re.sub(r'\S+@\S+', ' ', text): a run of non-space characters with an "@"
\* that is neither its first nor its last character is matched whole
RECURSIVE SubEmails(_)
SubEmails(s) ==
    LET at == { k \in 2..(Len(s) - 1) :
                  /\ s[k] = "@"
                  /\ IsNonSpace(s[k - 1])
                  /\ IsNonSpace(s[k + 1]) }
    IN  IF at = {} THEN s
        ELSE LET k == LeastOf(at)
             IN  SubSeq(s, 1, RunStart(s, k) - 1) \o <<" ">>
                 \o SubEmails(SubSeq(s, RunEnd(s, k) + 1, Len(s)))

\* the characters the third pattern never replaces, [\w\s,.!?:;()\[\]"'`]
\* (the backquote is not a character of the model's texts)
KeptChars ==
    Lowercase \cup Uppercase \cup Digits \cup {"_"} \cup Whitespace
    \cup {",", ".", "!", "?", ":", ";", "(", ")", "[", "]", "\"", "'"}

\* re.sub(r'(?<!\w)[^\w\s,.!?:;()\[\]"\'`](?!\w)', ' ', text)
SubSpecial(s) ==
    [i \in 1..Len(s) |->
        IF /\ s[i] \notin KeptChars
           /\ (i = 1 \/ ~IsWord(s[i - 1]))
           /\ (i = Len(s) \/ ~IsWord(s[i + 1]))
        THEN " " ELSE s[i]]

\* re.sub(r'\s+', ' ', text): the first character of a run of whitespace
\* becomes " " and the others go
SubSpaces(s) ==
    LET marked == [i \in 1..Len(s) |->
                     [c |-> IF s[i] \in Whitespace THEN " " ELSE s[i],
                      first |-> ~(/\ s[i] \in Whitespace
                                  /\ i > 1
                                  /\ s[i - 1] \in Whitespace)]]
        IsFirst(m) == m.first
        kept == SelectSeq(marked, IsFirst)
    IN  [i \in 1..Len(kept) |-> kept[i].c]

\* clean_html_content, lines 89-114
clean_html_content(content) ==
    IF content = <<>> THEN <<>>
    ELSE LET text1 == unescape(unescape(get_text(content, 1, <<>>)))
             text2 == SubSpaces(SubSpecial(SubEmails(SubUrls(text1))))
             text3 == strip(SubSpaces(text2))
         IN  SubSeq(text3, 1, Min2(truncate_length, Len(text3)))

\* base64 data that does not decode to UTF-8 text
Undecodable == [t |-> "bytes", v |-> <<>>]

\* the parts of a tree in the order process_part visits them (lines 121-139)
RECURSIVE Visit(_)
Visit(parts) ==
    IF parts = <<>> THEN <<>>
    ELSE <<Head(parts)>> \o Visit(Head(parts).parts) \o Visit(Tail(parts))

\* " ".join(list)
RECURSIVE Join(_)
Join(list) ==
    IF list = <<>> THEN <<>>
    ELSE IF Len(list) = 1 THEN list[1]
    ELSE list[1] \o <<" ">> \o Join(Tail(list))

\* the decoded data of the visited parts of one MIME type; a part without
\* data, or whose data does not decode (lines 132-133), adds nothing
Decoded(parts, mime_type) ==
    LET Has(part) == /\ part.mimeType = mime_type
                     /\ part.data.t = "str"
                     /\ part.data.v # <<>>
        kept == SelectSeq(Visit(parts), Has)
    IN  [i \in 1..Len(kept) |-> kept[i].data.v]

\* extract_body_from_parts, lines 117-146
extract_body_from_parts(parts) ==
    LET body_content == Decoded(parts, "text/plain")
        html_content == Decoded(parts, "text/html")
    IN  IF body_content # <<>> THEN clean_html_content(Join(body_content))
        ELSE IF html_content # <<>> THEN clean_html_content(Join(html_content))
        ELSE <<>>

----------------------------------------------------------------------------
(* emails.py: the messages of the model *)

\* a subject
ThanksForApplying ==
    <<"T","h","a","n","k","s"," ","f","o","r"," ","a","p","p","l","y","i",
    "n","g">>

\* a subject
YourApplication ==
    <<"Y","o","u","r"," ","a","p","p","l","i","c","a","t","i","o","n">>

\* a subject that holds a rejection phrase in capitals
ApplicationRejected ==
    <<"A","p","p","l","i","c","a","t","i","o","n"," ","R","E","J","E","C",
    "T","E","D">>

\* a subject that holds the beginning of a rejection phrase
WeRegretTo ==
    <<"W","e"," ","r","e","g","r","e","t"," ","t","o">>

\* a body that holds the end of it
InformYou ==
    <<"i","n","f","o","r","m"," ","y","o","u"," ","t","h","a","t"," ","w",
    "e"," ","c","h","o","s","e">>

\* a body without a rejection phrase
WeReceived ==
    <<"W","e"," ","r","e","c","e","i","v","e","d"," ","y","o","u","r"," ",
    "a","p","p","l","i","c","a","t","i","o","n">>

\* a body with rejection phrases
NotMovingForward ==
    <<"U","n","f","o","r","t","u","n","a","t","e","l","y"," ","w","e"," ",
    "w","i","l","l"," ","n","o","t"," ","b","e"," ","m","o","v","i","n","g",
    " ","f","o","r","w","a","r","d">>

\* HTML whose only rejection phrase is inside a script element
ScriptOnly ==
    <<"<","p",">","T","h","a","n","k"," ","y","o","u","<","/","p",">","<",
    "s","c","r","i","p","t",">","u","n","f","o","r","t","u","n","a","t","e",
    "l","y","<","/","s","c","r","i","p","t",">">>

\* a rejection phrase as part of a longer word
Rejections ==
    <<"N","o"," ","r","e","j","e","c","t","i","o","n","s"," ","t","o","d",
    "a","y">>

\* a character reference, a URL, an address and special characters
EscapedTag ==
    <<"S","e","e"," ","&","l","t",";","b","&","g","t",";"," ","a","t"," ",
    "h","t","t","p",":","/","/","x",".","i","o"," ","o","r"," ","m","e","@",
    "x",".","i","o"," ","*","n","o","w","*">>
\* one part of a payload: {"mimeType": ..., "body": {"data": ...}, "parts": ...}
Part(mime_type, data) == [mimeType |-> mime_type, data |-> data, parts |-> <<>>]

Multipart(parts) ==
    [mimeType |-> "multipart/alternative", data |-> Str(<<>>), parts |-> parts]

\* a message as messages().get returns it: the Subject header (None when
\* the header is absent), whether the payload has a "parts" key, its parts,
\* and the data of its own body ("" when absent)
Message(subject, has_parts, parts, data) ==
    [subject |-> subject, has_parts |-> has_parts, parts |-> parts,
     data |-> data]

FetchMessages ==
    { Message(Str(ThanksForApplying), TRUE,
              <<Part("text/plain", Str(WeReceived))>>, Str(<<>>)),
      Message(Str(YourApplication), FALSE, <<>>, Str(NotMovingForward)),
      Message(Str(ApplicationRejected), FALSE, <<>>, Str(<<>>)),
      Message(None, FALSE, <<>>, Str(<<>>)),
      Message(Str(YourApplication), TRUE,
              <<Multipart(<<Part("text/plain", Undecodable),
                            Part("text/html", Str(ScriptOnly))>>)>>,
              Str(<<>>)),
      Message(Str(ThanksForApplying), FALSE, <<>>, Str(Rejections)),
      Message(Str(WeRegretTo), TRUE,
              <<Part("text/plain", Str(InformYou)),
                Part("text/plain", Str(EscapedTag))>>, Str(<<>>)),
      Message(Str(YourApplication), FALSE, <<>>, Undecodable) }

\* the three messages of one user's window: a confirmation that names the
\* company and the role, a rejection, and a newsletter
ThanksAcme ==
    <<"T","h","a","n","k","s"," ","f","o","r"," ","a","p","p","l","y","i",
    "n","g"," ","t","o"," ","A","c","m","e">>

RoleText ==
    <<"Y","o","u","r"," ","a","p","p","l","i","c","a","t","i","o","n"," ",
    "f","o","r"," ","S","o","f","t","w","a","r","e"," ","E","n","g","i","n",
    "e","e","r">>

Newsletter ==
    <<"W","e","e","k","l","y"," ","n","e","w","s","l","e","t","t","e","r">>

TopStories ==
    <<"T","o","p"," ","s","t","o","r","i","e","s"," ","o","f"," ","t","h",
    "e"," ","w","e","e","k">>

EndToEndMessages ==
    << Message(Str(ThanksAcme), FALSE, <<>>, Str(RoleText)),
       Message(Str(YourApplication), FALSE, <<>>, Str(NotMovingForward)),
       Message(Str(Newsletter), FALSE, <<>>, Str(TopStories)) >>

\* what the mailbox of a user holds when a cycle starts
Mailboxes == { <<>>, EndToEndMessages }

\* what messages().get(...).execute() does (line 291-296)
GetOutcomes == {"ok", "HttpError"}

\* what classify_email returns or raises (lines 155-168)
ClassifyOutcomes == {"confirmation", "unrelated", "RuntimeError"}

\* what the classifier does for one text on its first, second and third
\* call: the same every time, or an error twice and then a label
ClassifyAttempts ==
    { <<o, o, o>> : o \in ClassifyOutcomes }
      \cup { <<"RuntimeError", "RuntimeError", "confirmation">> }

\* a classifier call that answers "confirmation" when the model fails
classify_email_or_confirmation(attempts) ==
    IF attempts[1] = "RuntimeError" THEN "confirmation" ELSE attempts[1]

\* line 319: prediction = classify_email(final_text), called once with
\* nothing around it that calls again
classify_email(attempts) == attempts[1]

\* a token of the text with the label the model gives it, "B-COMPANY"
\* written <<"B", "COMPANY">>; the special tokens (start == end) have no
\* characters
Token(w, label) == [w |-> w, label |-> label]

\* the labelled tokens of the texts: two companies and a stray I- label,
\* and two positions one after the other
TokenLabelings ==
    { << Token(<<>>, <<"O", "">>),
         Token(Acme, <<"B", "COMPANY">>),
         Token(<<"a","n","d">>, <<"O", "">>),
         Token(Gem, <<"B", "COMPANY">>),
         Token(<<"t","o","o">>, <<"I", "POSITION">>) >>,
      << Token(<<>>, <<"O", "">>),
         Token(SWE, <<"B", "POSITION">>),
         Token(QA, <<"B", "POSITION">>),
         Token(<<>>, <<"O", "">>) >> }

\* an entity being built is never added to the list
CloseOffNever(entities, current_entity) == entities

\* lines 230-231, 241-242 and 247-248: if current_entity:
\* entities.append(self._get_text(text, current_offsets)); the tokens are
\* the words of a text with one space between them, so that the text from
\* the first offset to the last is the words joined by spaces
CloseOff(entities, current_entity) ==
    IF current_entity # <<>>
    THEN Append(entities, Join(current_entity))
    ELSE entities

\* the loop of lines 221-244 from token idx on: the entities closed so far
\* and the words of the entity being built
RECURSIVE ExtractFrom(_, _, _, _, _)
ExtractFrom(tokens, idx, entity_type, entities, current_entity) ==
    IF idx > Len(tokens)
    THEN CloseOff(entities, current_entity)
    ELSE LET tok == tokens[idx]
             closed == CloseOff(entities, current_entity)
         IN  IF tok.w = <<>>
             THEN ExtractFrom(tokens, idx + 1, entity_type, entities,
                              current_entity)
             ELSE IF tok.label = <<"B", entity_type>>
             THEN ExtractFrom(tokens, idx + 1, entity_type, closed, <<tok.w>>)
             ELSE IF tok.label = <<"I", entity_type>> /\ current_entity # <<>>
             THEN ExtractFrom(tokens, idx + 1, entity_type, entities,
                              Append(current_entity, tok.w))
             ELSE ExtractFrom(tokens, idx + 1, entity_type, closed, <<>>)

\* _extract_entities, lines 214-251: the entities of one type in the order
\* of the text
_extract_entities(tokens, entity_type) ==
    ExtractFrom(tokens, 1, entity_type, <<>>, <<>>)

\* what extractor.predict returns or raises (lines 183-212), with the
\* labelled tokens it was computed from
PredictOutcomes ==
    { [raised |-> FALSE,
       companies |-> _extract_entities(t, "COMPANY"),
       positions |-> _extract_entities(t, "POSITION"),
       tokens |-> t] : t \in TokenLabelings }
    \cup { [raised |-> TRUE, companies |-> <<>>, positions |-> <<>>,
            tokens |-> <<>>] }

\* a local variable that has not been assigned
Unbound == [t |-> "unbound", v |-> <<>>]

\* the Subject header, or the default of line 300
SubjectOf(msg) ==
    IF msg.subject = None
    THEN <<"N","o"," ","S","u","b","j","e","c","t">>
    ELSE msg.subject.v

\* lines 303-308: the value of `body` after the body of the message has
\* been extracted; a payload with neither parts nor data leaves it as it was
BodyAfter(msg, body_before) ==
    IF msg.has_parts THEN Str(extract_body_from_parts(msg.parts))
    ELSE IF msg.data = Undecodable THEN [t |-> "raise", v |-> <<>>]
    ELSE IF msg.data.v # <<>> THEN msg.data
    ELSE body_before

\* the branch of lines 315-316 is never taken
RejectionGateOff(subject, cleaned_body) == FALSE

\* lines 315-316: if is_rejection(subject, cleaned_body): continue
RejectionGate(subject, cleaned_body) == is_rejection(subject, cleaned_body)

\* the last element of the list, or None
LastOrNone(list) == IF list # <<>> THEN Str(list[Len(list)]) ELSE None

\* result["companies"][0] if result["companies"] else None (lines 323-324)
FirstOrNone(list) == IF list # <<>> THEN Str(list[1]) ELSE None

\* the record of one iteration of the loop: the error it ended with, the
\* lines it reached, what the classifier would do on successive calls (when
\* it was called), the value assigned to `prediction` and the value
\* assigned to `result`
Entry(error, tested, classified, predicted, appended, attempts, prediction, result) ==
    [error |-> error, tested |-> tested, classified |-> classified,
     predicted |-> predicted, appended |-> appended,
     attempts |-> attempts, prediction |-> prediction, result |-> result]

\* lines 298-315 for `msg`, given the value of `body` before them: the
\* subject, the value of `body`, the cleaned body and the outcome of the
\* test of line 315
Texts(msg, body_before) ==
    LET subject == SubjectOf(msg)
        body_now == BodyAfter(msg, body_before)
        cleaned_body == clean_html_content(body_now.v)
    IN  [subject |-> subject,
         body |-> body_now,
         rejected |-> IF body_now.t = "str"
                      THEN RejectionGate(subject, cleaned_body)
                      ELSE FALSE]

\* one iteration of the loop of lines 289-331, given the texts of the
\* message, the value of `body` before it and what the three calls do: the
\* value of `body` after it, what is appended to the two lists, and the
\* record of the iteration
Iteration(texts, body_before, got, attempts, result) ==
    LET label == classify_email(attempts)
        Out(b, conf, non_job, log) ==
            [body |-> b, conf |-> conf, non_job |-> non_job, log |-> log]
    IN  IF got # "ok"
        THEN Out(body_before, <<>>, <<>>,
                 Entry(got, FALSE, FALSE, FALSE, FALSE, <<>>, "none", None))
        ELSE IF texts.body.t = "raise"
        THEN Out(body_before, <<>>, <<>>,
                 Entry("binascii.Error", FALSE, FALSE, FALSE, FALSE,
                       <<>>, "none", None))
        ELSE IF texts.body = Unbound
        THEN Out(body_before, <<>>, <<>>,
                 Entry("UnboundLocalError", FALSE, FALSE, FALSE, FALSE,
                       <<>>, "none", None))
        ELSE IF texts.rejected
        THEN Out(texts.body, <<>>, <<>>,
                 Entry("none", TRUE, FALSE, FALSE, FALSE, <<>>, "none", None))
        ELSE IF label = "RuntimeError"
        THEN Out(texts.body, <<>>, <<>>,
                 Entry(label, TRUE, TRUE, FALSE, FALSE, attempts, "none", None))
        ELSE IF label # "confirmation"
        THEN Out(texts.body, <<>>, <<texts.subject>>,
                 Entry("none", TRUE, TRUE, FALSE, FALSE, attempts, label,
                       None))
        ELSE IF result.raised
        THEN Out(texts.body, <<>>, <<>>,
                 Entry("RuntimeError", TRUE, TRUE, TRUE, FALSE, attempts, label,
                       None))
        ELSE Out(texts.body,
                 << <<texts.subject, FirstOrNone(result.companies),
                      FirstOrNone(result.positions)>> >>,
                 <<>>,
                 Entry("none", TRUE, TRUE, TRUE, TRUE, attempts, label,
                       result))

\* lines 270-276: the list call answers with a page of messages and, behind
\* its nextPageToken, the later pages of the window; the function reads
\* response.get("messages", []) and nothing else of the response
ListResponse(first, later) ==
    /\ fPc = "list"
    /\ messages' = first
    /\ laterPages' = later
    /\ fPc' = "load"
    /\ UNCHANGED <<body, confirmations, non_job_emails, fLog, fRet>>
    /\ UNCHANGED <<mergeVars, cleanVars, partsVars, legacyVars, dbVars, schedVars, entityVars, overlapVars>>

\* the window fits in one page: the response has no nextPageToken
ListOk ==
    /\ fPc = "list"
    /\ \E first \in SeqsUpTo(FetchMessages, MaxMsgs) :
          ListResponse(first, <<>>)

\* the list call raises and no handler catches the error
ListFailRaises ==
    /\ fPc = "list"
    /\ fPc' = "raised"
    /\ UNCHANGED <<messages, body, confirmations, non_job_emails, fLog,
                   fRet, laterPages>>
    /\ UNCHANGED <<mergeVars, cleanVars, partsVars, legacyVars, dbVars, schedVars, entityVars, overlapVars>>

\* lines 277-279: the list call raises; the error is logged and the
\* function returns None
ListFail ==
    /\ fPc = "list"
    /\ fPc' = "returned"
    /\ fRet' = None
    /\ UNCHANGED <<messages, body, confirmations, non_job_emails, fLog,
                   laterPages>>
    /\ UNCHANGED <<mergeVars, cleanVars, partsVars, legacyVars, dbVars, schedVars, entityVars, overlapVars>>

\* lines 283-287: the extractor is loaded and the two lists are made
LoadOk ==
    /\ fPc = "load"
    /\ fPc' = "loop"
    /\ confirmations' = <<>>
    /\ non_job_emails' = <<>>
    /\ UNCHANGED <<messages, body, fLog, fRet, laterPages>>
    /\ UNCHANGED <<mergeVars, cleanVars, partsVars, legacyVars, dbVars, schedVars, entityVars, overlapVars>>

\* line 284 raises (the model cannot be loaded): no handler, the exception
\* leaves the function
LoadFail ==
    /\ fPc = "load"
    /\ fPc' = "raised"
    /\ UNCHANGED <<messages, body, confirmations, non_job_emails, fLog, fRet,
                   laterPages>>
    /\ UNCHANGED <<mergeVars, cleanVars, partsVars, legacyVars, dbVars, schedVars, entityVars, overlapVars>>

\* a handler that catches the errors of the Gmail API only
ExceptHttpError(error) == error = "HttpError"

\* line 330: except Exception as e, around the whole body of the loop
ExceptException(error) ==
    error \in {"HttpError", "binascii.Error", "UnboundLocalError",
               "RuntimeError"}

\* lines 289-331: one iteration of the loop, handler of line 330 included
ProcessMessage ==
    /\ fPc = "loop"
    /\ Len(fLog) < Len(messages)
    /\ LET texts == Texts(messages[Len(fLog) + 1], body)
       IN  \E got \in GetOutcomes, attempts \in ClassifyAttempts,
              result \in PredictOutcomes :
              LET it == Iteration(texts, body, got, attempts, result)
              IN  /\ body' = it.body
                  /\ confirmations' = confirmations \o it.conf
                  /\ non_job_emails' = non_job_emails \o it.non_job
                  /\ fLog' = Append(fLog, it.log)
                  /\ fPc' = IF it.log.error = "none"
                               \/ ExceptException(it.log.error)
                            THEN "loop" ELSE "raised"
    /\ UNCHANGED <<messages, fRet, laterPages>>
    /\ UNCHANGED <<mergeVars, cleanVars, partsVars, legacyVars, dbVars, schedVars, entityVars, overlapVars>>

\* the loop is over and the function ends without a return statement
FallOffEnd ==
    /\ fPc = "loop"
    /\ Len(fLog) = Len(messages)
    /\ fPc' = "returned"
    /\ fRet' = None
    /\ UNCHANGED <<messages, body, confirmations, non_job_emails, fLog,
                   laterPages>>
    /\ UNCHANGED <<mergeVars, cleanVars, partsVars, legacyVars, dbVars, schedVars, entityVars, overlapVars>>

FetchIdle ==
    /\ messages = <<>>
    /\ body = Unbound
    /\ confirmations = <<>>
    /\ non_job_emails = <<>>
    /\ fLog = <<>>
    /\ fPc = "off"
    /\ fRet = Unbound
    /\ laterPages = <<>>

\* the cycles that can overlap and the users of TokenStore in SpecOverlap
Cycles == {1, 2}

OverlapUsers == 1..MaxOverlap

NoEntities == [companies |-> <<>>, positions |-> <<>>]

EntityIdle ==
    /\ eTokens = <<>>
    /\ eEntities = NoEntities
    /\ ePc = "off"

OverlapIdle ==
    /\ oCyc = [c \in Cycles |-> "off"]
    /\ oSem = [c \in Cycles |-> 0]
    /\ oWpc = [c \in Cycles |-> [u \in OverlapUsers |-> "none"]]
    /\ oMy = [u \in OverlapUsers |-> "off"]

LegacyIdle ==
    /\ lConfirmations = <<>>
    /\ lNew = <<>>
    /\ lCounts = <<0, 0>>
    /\ lLog = <<>>
    /\ lPc = "off"

PartsIdle ==
    /\ pParts = <<>>
    /\ pBody = <<>>
    /\ pPc = "off"

CleanIdle ==
    /\ cText = <<>>
    /\ cOnce = <<>>
    /\ cTwice = <<>>
    /\ cPc = "off"

MergeIdle ==
    /\ mApps = <<>>
    /\ mUser = ""
    /\ mOut = NotCalled
    /\ mPc = "off"

DbIdle ==
    /\ storage = {}
    /\ pend = [p \in Sessions |-> {}]
    /\ ses = [p \in Sessions |-> IdleFrame]
    /\ clock = 0
    /\ faults = 0
    /\ cur = NoCall
    /\ lastDone = NoneDone

SchedIdle ==
    /\ cyc = "off"
    /\ users = {}
    /\ sem = 0
    /\ wpc = [u \in 1..MaxUsers |-> "none"]
    /\ mailbox = [u \in 1..MaxUsers |-> <<>>]

\* the table is empty and no pipeline runs
Init ==
    DbIdle /\ MergeIdle /\ SchedIdle /\ FetchIdle /\ CleanIdle /\ PartsIdle
    /\ LegacyIdle
    /\ EntityIdle
    /\ OverlapIdle

\* a call while others may be in progress
CallAny(p, u, apps) ==
    /\ Call(p, u, apps)
    /\ UNCHANGED <<cur, lastDone>>

\* pipelines of any users, interleaved at their awaited storage operations
Next ==
    \/ \E p \in Sessions, u \in Users, apps \in DbBatches :
          CallAny(p, u, apps)
    \/ \E p \in Sessions :
          \/ FilterOk(p)
          \/ FilterFail(p)
          \/ InsertOk(p)
          \/ InsertFail(p)
          \/ RollbackInsert(p)
          \/ CommitOk(p)
          \/ CommitFail(p)
          \/ FinalCommitOk(p)
          \/ FinalCommitFail(p)
          \/ Rollback(p)

Spec == Init /\ [][Next]_vars

\* a call starts only when no other is in progress
CallSeq(p, u, apps) ==
    /\ \A q \in Sessions : ses[q].pc = "idle"
    /\ Call(p, u, apps)
    /\ cur' = [p |-> p, user |-> u, apps |-> apps, snap |-> storage,
                repeat |-> (lastDone = [ok |-> TRUE, user |-> u, apps |-> apps])]
    /\ lastDone' = IF apps = <<>> THEN Done(cur') ELSE lastDone

\* pipelines run one after another
NextSeq ==
    \/ \E p \in Sessions, u \in Users, apps \in DbBatches :
          CallSeq(p, u, apps)
    \/ \E p \in Sessions :
          \/ FilterOk(p)
          \/ FilterFail(p)
          \/ InsertOk(p)
          \/ InsertFail(p)
          \/ RollbackInsert(p)
          \/ CommitOk(p)
          \/ CommitFail(p)
          \/ FinalCommitOk(p)
          \/ FinalCommitFail(p)
          \/ Rollback(p)

SpecSeq == Init /\ [][NextSeq]_vars

\* pipelines run one after another on lists of several chunks
NextChunk ==
    \/ \E p \in Sessions, u \in Users, apps \in ChunkBatches :
          CallSeq(p, u, apps)
    \/ \E p \in Sessions :
          \/ FilterOk(p)
          \/ FilterFail(p)
          \/ InsertOk(p)
          \/ InsertFail(p)
          \/ RollbackInsert(p)
          \/ CommitOk(p)
          \/ CommitFail(p)
          \/ FinalCommitOk(p)
          \/ FinalCommitFail(p)
          \/ Rollback(p)

SpecChunk == Init /\ [][NextChunk]_vars

----------------------------------------------------------------------------
(* SpecMerge: _process_entries on every input list up to MergeMaxLen *)

InitMerge ==
    /\ mApps \in SeqsUpTo(MergeEntries, MergeMaxLen)
    /\ mUser \in Users
    /\ mOut = NotCalled
    /\ mPc = "call"
    /\ DbIdle
    /\ SchedIdle
    /\ FetchIdle
    /\ CleanIdle
    /\ PartsIdle
    /\ LegacyIdle
    /\ EntityIdle
    /\ OverlapIdle

\* valid_apps = await _process_entries(applications, user_email)
MergeCall ==
    /\ mPc = "call"
    /\ mOut' = _process_entries(mApps, mUser, 1)
    /\ mPc' = "returned"
    /\ UNCHANGED <<mApps, mUser>>
    /\ UNCHANGED <<dbVars, schedVars, fetchVars, cleanVars, partsVars, legacyVars, entityVars, overlapVars>>

NextMerge == MergeCall

SpecMerge == InitMerge /\ [][NextMerge]_vars

----------------------------------------------------------------------------
(* scheduler.py: scheduled_email_fetch, limited_worker,                    *)
(* async_process_user_emails                                               *)

\* scheduled_email_fetch(max_concurrent_users: int = 5); both callers (the
\* endpoint of line 49 and the module's own use) pass no argument
max_concurrent_users == 5

\* asyncio.Semaphore.acquire that never waits
CanAcquireAlways(value) == TRUE

\* asyncio.Semaphore.acquire returns at once when the value is positive and
\* waits otherwise (async with semaphore, line 38)
CanAcquire(value) == value > 0

\* a semaphore whose permit is not given back
ReleaseLost(value) == value

\* asyncio.Semaphore.release, on leaving the async with of line 38
Release(value) == value + 1

\* what line 18, `service = await get_gmail_service(user_email)`, raises:
\* get_gmail_service (emails.py lines 65-86) is a plain function, so the call
\* runs it to its end; it raises (line 67: the AsyncSession made by
\* SessionLocal has no query attribute; line 71: no stored token), and a
\* value it would return is not awaitable, which makes the await raise
\* TypeError.  Line 18 never completes normally.
AwaitGetGmailService == {"AttributeError", "Exception", "TypeError"}

\* a try block with no handler for the exception
ExceptCatchesNothing(exc) == FALSE

\* line 26: except Exception
ExceptCatches(exc) == exc \in {"AttributeError", "Exception", "TypeError"}

\* lines 31-43 up to the gather: the users are read, the semaphore is made
\* and one limited_worker task per user is started
Enumerate ==
    /\ cyc = "start"
    /\ \E m \in 0..MaxUsers :
          /\ users' = 1..m
          /\ wpc' = [u \in 1..MaxUsers |-> IF u <= m THEN "pending" ELSE "none"]
    /\ sem' = max_concurrent_users
    /\ cyc' = "gather"
    /\ UNCHANGED <<mailbox, mergeVars, cleanVars, partsVars, legacyVars, dbVars, fetchVars, entityVars, overlapVars>>

\* line 32 raises: the cycle cannot start
EnumerateFail ==
    /\ cyc = "start"
    /\ cyc' = "failed"
    /\ UNCHANGED <<users, sem, wpc, mailbox, mergeVars, cleanVars, partsVars, legacyVars, dbVars, fetchVars, entityVars, overlapVars>>

\* line 38: the worker enters `async with semaphore`
Acquire(u) ==
    /\ wpc[u] = "pending"
    /\ CanAcquire(sem)
    /\ sem' = sem - 1
    /\ wpc' = [wpc EXCEPT ![u] = "running"]
    /\ UNCHANGED <<cyc, users, mailbox, mergeVars, cleanVars, partsVars, legacyVars, dbVars, fetchVars, entityVars, overlapVars>>

\* lines 16-27: the session is opened and line 18 raises.  The handler of
\* line 26 logs the error and the worker waits for its session to close; an
\* exception the handler does not catch leaves the session and the semaphore
\* blocks, ends the task, and is raised by the gather of line 42 while the
\* other tasks go on.
Body(u) ==
    /\ wpc[u] = "running"
    /\ \E exc \in AwaitGetGmailService :
          IF ExceptCatches(exc)
          THEN /\ wpc' = [wpc EXCEPT ![u] = "closing"]
               /\ UNCHANGED <<cyc, sem>>
          ELSE /\ wpc' = [wpc EXCEPT ![u] = "escaped"]
               /\ sem' = Release(sem)
               /\ cyc' = IF cyc = "gather" THEN "raised" ELSE cyc
    /\ UNCHANGED <<users, mailbox, mergeVars, cleanVars, partsVars, legacyVars, dbVars, fetchVars, entityVars, overlapVars>>

\* lines 16 and 38-39: the session has closed; the worker leaves both
\* `async with` blocks and ends
CloseAndRelease(u) ==
    /\ wpc[u] = "closing"
    /\ sem' = Release(sem)
    /\ wpc' = [wpc EXCEPT ![u] = "resolved"]
    /\ UNCHANGED <<cyc, users, mailbox, mergeVars, cleanVars, partsVars, legacyVars, dbVars, fetchVars, entityVars, overlapVars>>

\* lines 42-43: the gather returns when every task has ended
GatherDone ==
    /\ cyc = "gather"
    /\ \A u \in users : wpc[u] = "resolved"
    /\ cyc' = "done"
    /\ UNCHANGED <<users, sem, wpc, mailbox, mergeVars, cleanVars, partsVars, legacyVars, dbVars, fetchVars, entityVars, overlapVars>>

InitSched ==
    /\ cyc = "start"
    /\ users = {}
    /\ sem = 0
    /\ wpc = [u \in 1..MaxUsers |-> "none"]
    /\ \E m \in Mailboxes : mailbox = [u \in 1..MaxUsers |-> m]
    /\ DbIdle
    /\ MergeIdle
    /\ FetchIdle
    /\ CleanIdle
    /\ PartsIdle
    /\ LegacyIdle
    /\ EntityIdle
    /\ OverlapIdle

NextSched ==
    \/ Enumerate
    \/ EnumerateFail
    \/ \E u \in 1..MaxUsers :
          \/ Acquire(u)
          \/ Body(u)
          \/ CloseAndRelease(u)
    \/ GatherDone

SpecSched == InitSched /\ [][NextSched]_vars

\* the event loop runs a task that is ready
SpecSchedFair == SpecSched /\ WF_vars(NextSched)

----------------------------------------------------------------------------
(* SpecFetch: fetch_and_classify_emails on every list of messages up to    *)
(* MaxMsgs                                                                 *)

InitFetch ==
    /\ messages = <<>>
    /\ body = Unbound
    /\ confirmations = <<>>
    /\ non_job_emails = <<>>
    /\ fLog = <<>>
    /\ fPc = "list"
    /\ fRet = Unbound
    /\ laterPages = <<>>
    /\ DbIdle
    /\ MergeIdle
    /\ SchedIdle
    /\ CleanIdle
    /\ PartsIdle
    /\ LegacyIdle
    /\ EntityIdle
    /\ OverlapIdle

NextFetch ==
    \/ ListOk
    \/ ListFail
    \/ LoadOk
    \/ LoadFail
    \/ ProcessMessage
    \/ FallOffEnd

SpecFetch == InitFetch /\ [][NextFetch]_vars

\* the windows of more than one page: a first page and the pages behind
\* its nextPageToken
PagedWindows ==
    LET m1 == Message(Str(ThanksForApplying), TRUE,
                      <<Part("text/plain", Str(WeReceived))>>, Str(<<>>))
        m2 == Message(Str(YourApplication), FALSE, <<>>, Str(NotMovingForward))
    IN  { [first |-> f, later |-> l] :
            f \in SeqsUpTo({m1, m2}, MaxMsgs) \ { <<>> },
            l \in { << <<m1>> >>, << <<m2>>, <<m1>> >> } }

\* the list call answers with a nextPageToken
ListPaged ==
    /\ fPc = "list"
    /\ \E w \in PagedWindows : ListResponse(w.first, w.later)

\* fetch_and_classify_emails on a window of one page or of several
NextPage ==
    \/ ListOk
    \/ ListPaged
    \/ ListFail
    \/ LoadOk
    \/ LoadFail
    \/ ProcessMessage
    \/ FallOffEnd

SpecPage == InitFetch /\ [][NextPage]_vars

----------------------------------------------------------------------------
(* clean_html_content applied to its own result *)

\* pieces of the texts given to clean_html_content: words, a space, a tag,
\* the same tag written with character references, a URL, a reference to
\* "&" and a lone special character
CleanPieces ==
    { <<"H","e","l","l","o">>,
      <<"w","o","r","l","d">>,
      <<" ">>,
      <<"<","b",">">>,
      <<"&","l","t",";","b","&","g","t",";">>,
      <<"h","t","t","p",":","/","/","x",".","i","o">>,
      <<"&","a","m","p",";">>,
      <<"-">> }

\* the texts made of at most n pieces
RECURSIVE PieceTexts(_)
PieceTexts(n) ==
    IF n = 0 THEN { <<>> }
    ELSE LET shorter == PieceTexts(n - 1)
         IN  shorter \cup { t \o q : t \in shorter, q \in CleanPieces }

\* a text longer than truncate_length: `word` again and again
LongText(word) ==
    [i \in 1..(truncate_length + 2 * Len(word)) |->
        word[((i - 1) % Len(word)) + 1]]

\* long texts whose character at truncate_length is a space, and is a
\* letter
LongTexts ==
    { LongText(<<"a","b","c","d","e","f","g","h","i"," ">>),
      LongText(<<"a","b"," ">>) }

\* the `content` arguments of the first call
CleanTexts == PieceTexts(MaxPieces) \cup LongTexts

InitClean ==
    /\ cText \in CleanTexts
    /\ cOnce = <<>>
    /\ cTwice = <<>>
    /\ cPc = "call"
    /\ DbIdle
    /\ MergeIdle
    /\ SchedIdle
    /\ FetchIdle
    /\ PartsIdle
    /\ LegacyIdle
    /\ EntityIdle
    /\ OverlapIdle

\* cleaned_body = clean_html_content(body)
CleanOnce ==
    /\ cPc = "call"
    /\ cOnce' = clean_html_content(cText)
    /\ cPc' = "once"
    /\ UNCHANGED <<cText, cTwice>>
    /\ UNCHANGED <<mergeVars, partsVars, legacyVars, dbVars, schedVars, fetchVars, entityVars, overlapVars>>

\* clean_html_content called on what it returned
CleanTwice ==
    /\ cPc = "once"
    /\ cTwice' = clean_html_content(cOnce)
    /\ cPc' = "twice"
    /\ UNCHANGED <<cText, cOnce>>
    /\ UNCHANGED <<mergeVars, partsVars, legacyVars, dbVars, schedVars, fetchVars, entityVars, overlapVars>>

NextClean ==
    \/ CleanOnce
    \/ CleanTwice

SpecClean == InitClean /\ [][NextClean]_vars

----------------------------------------------------------------------------
(* extract_body_from_parts applied to a part tree *)

\* leaves of the part trees: text/plain with two different texts, with
\* data that does not decode and without data, and text/html
PartLeaves ==
    { Part("text/plain", Str(WeReceived)),
      Part("text/plain", Str(InformYou)),
      Part("text/plain", Undecodable),
      Part("text/plain", Str(<<>>)),
      Part("text/html", Str(EscapedTag)) }

\* the part trees: at most MaxParts parts at the top, each a leaf or a
\* multipart of at most MaxParts leaves
PartTrees ==
    SeqsUpTo(PartLeaves
             \cup { Multipart(ps) : ps \in SeqsUpTo(PartLeaves, MaxParts) },
             MaxParts)

InitParts ==
    /\ pParts \in PartTrees
    /\ pBody = <<>>
    /\ pPc = "call"
    /\ DbIdle
    /\ MergeIdle
    /\ SchedIdle
    /\ FetchIdle
    /\ CleanIdle
    /\ LegacyIdle
    /\ EntityIdle
    /\ OverlapIdle

\* body = extract_body_from_parts(payload['parts'])
ExtractBody ==
    /\ pPc = "call"
    /\ pBody' = extract_body_from_parts(pParts)
    /\ pPc' = "returned"
    /\ UNCHANGED pParts
    /\ UNCHANGED <<mergeVars, cleanVars, legacyVars, dbVars, schedVars, fetchVars, entityVars, overlapVars>>

NextParts == ExtractBody

SpecParts == InitParts /\ [][NextParts]_vars

----------------------------------------------------------------------------
(* backend/logic.py: insert_job_applications(db, confirmations) on a
   session of backend/database.py *)

\* an entity of doc.ents
Ent(label, text) == [label |-> label, text |-> text]

\* the emails of `confirmations`, each by the entities spaCy finds in its
\* body, in the order of the text
LegacyEmails ==
    { << Ent("COMPANY", Acme), Ent("POSITION", SWE) >>,
      << Ent("COMPANY", Acme) >>,
      << Ent("POSITION", QA) >>,
      << Ent("COMPANY", Acme), Ent("COMPANY", Gem), Ent("POSITION", SWE) >>,
      << Ent("COMPANY", Gem), Ent("POSITION", QA) >> }

\* lines 29-33: the text of the first entity with the label, or None
FirstEnt(ents, label) ==
    LET at == { i \in 1..Len(ents) : ents[i].label = label }
    IN  IF at = {} THEN None ELSE Str(ents[LeastOf(at)].text)

\* a row of job_applications as the legacy code reads and writes it
LegacyRow(id, user_email, company, job_title) ==
    [id |-> id, user_email |-> user_email, company |-> company,
     job_title |-> job_title]

\* tables without two rows of the same company and title
LegacyTables ==
    { {},
      { LegacyRow(1, Str(<<"a","n","n","@","x">>), Acme, SWE) },
      { LegacyRow(1, Str(<<"a","n","n","@","x">>), Acme, SWE),
        LegacyRow(2, Str(<<"a","n","n","@","x">>), Gem,
                  <<"U","n","k","n","o","w","n"," ","P","o","s","i","t","i","o","n">>) } }

\* line 51: JobApplication(company=company, job_title=effective_title);
\* user_email is not given
NewJob(company, job_title) ==
    [user_email |-> None, company |-> company, job_title |-> job_title]

\* the rows a query of the session reads: SessionLocal has autoflush=False
\* (database.py:16), so the objects added and not flushed are not among them
QueryRows(rows, new) == rows

\* a column declared without nullable=False
NullableUserEmail(obj) == FALSE

\* database.py:22: user_email = Column(String, nullable=False); the INSERT
\* of an object without user_email fails
NotNullViolation(obj) == obj.user_email = None

InitLegacy ==
    /\ lConfirmations \in SeqsUpTo(LegacyEmails, MaxEmails)
    /\ lNew = <<>>
    /\ lCounts = <<0, 0>>
    /\ lLog = <<>>
    /\ lPc = "call"
    /\ storage \in LegacyTables
    /\ pend = [p \in Sessions |-> {}]
    /\ ses = [p \in Sessions |-> IdleFrame]
    /\ clock = 0
    /\ faults = 0
    /\ cur = NoCall
    /\ lastDone = NoneDone
    /\ MergeIdle
    /\ SchedIdle
    /\ FetchIdle
    /\ CleanIdle
    /\ PartsIdle
    /\ EntityIdle
    /\ OverlapIdle

\* lines 15-21: the spaCy model is loaded
LegacyLoadOk ==
    /\ lPc = "call"
    /\ lPc' = "loop"
    /\ UNCHANGED <<lConfirmations, lNew, lCounts, lLog>>
    /\ UNCHANGED <<mergeVars, cleanVars, partsVars, dbVars, schedVars, fetchVars, entityVars, overlapVars>>

\* lines 17-18: loading fails and RuntimeError leaves the function
LegacyLoadFail ==
    /\ lPc = "call"
    /\ lPc' = "raised"
    /\ UNCHANGED <<lConfirmations, lNew, lCounts, lLog>>
    /\ UNCHANGED <<mergeVars, cleanVars, partsVars, dbVars, schedVars, fetchVars, entityVars, overlapVars>>

\* lines 23-55: one iteration of the loop
LegacyEmail ==
    /\ lPc = "loop"
    /\ Len(lLog) < Len(lConfirmations)
    /\ LET ents == lConfirmations[Len(lLog) + 1]
           company == FirstEnt(ents, "COMPANY")
           job_title == FirstEnt(ents, "POSITION")
           effective_title ==
               IF job_title # None THEN job_title.v
               ELSE <<"U","n","k","n","o","w","n"," ","P","o","s","i","t","i","o","n">>
           duplicate ==
               company # None
               /\ \E r \in QueryRows(storage, lNew) :
                     r.company = company.v /\ r.job_title = effective_title
       IN  IF company # None /\ ~duplicate
           THEN /\ lNew' = Append(lNew, NewJob(company.v, effective_title))
                /\ lCounts' = <<lCounts[1] + 1, lCounts[2]>>
                /\ lLog' = Append(lLog, "added")
           ELSE /\ lNew' = lNew
                /\ lCounts' = <<lCounts[1], lCounts[2] + 1>>
                /\ lLog' = Append(lLog, IF duplicate THEN "duplicate"
                                         ELSE "no company")
    /\ UNCHANGED <<lConfirmations, lPc>>
    /\ UNCHANGED <<mergeVars, cleanVars, partsVars, dbVars, schedVars, fetchVars, entityVars, overlapVars>>

\* line 57: db.commit() flushes the objects added, each as a row with the
\* next id, and commits them
LegacyCommitOk ==
    /\ lPc = "loop"
    /\ Len(lLog) = Len(lConfirmations)
    /\ \A i \in 1..Len(lNew) : ~NotNullViolation(lNew[i])
    /\ storage' = storage \cup
          { LegacyRow(Cardinality(storage) + i, lNew[i].user_email,
                      lNew[i].company, lNew[i].job_title) :
              i \in 1..Len(lNew) }
    /\ lNew' = <<>>
    /\ lPc' = "returned"
    /\ UNCHANGED <<lConfirmations, lCounts, lLog>>
    /\ UNCHANGED <<pend, ses, clock, faults, cur, lastDone>>
    /\ UNCHANGED <<mergeVars, cleanVars, partsVars, schedVars, fetchVars, entityVars, overlapVars>>

\* line 57: the flush of db.commit() fails on a constraint of the table;
\* IntegrityError leaves the function and no row is stored
LegacyCommitFail ==
    /\ lPc = "loop"
    /\ Len(lLog) = Len(lConfirmations)
    /\ \E i \in 1..Len(lNew) : NotNullViolation(lNew[i])
    /\ lPc' = "raised"
    /\ UNCHANGED <<lConfirmations, lNew, lCounts, lLog>>
    /\ UNCHANGED <<mergeVars, cleanVars, partsVars, dbVars, schedVars, fetchVars, entityVars, overlapVars>>

NextLegacy ==
    \/ LegacyLoadOk
    \/ LegacyLoadFail
    \/ LegacyEmail
    \/ LegacyCommitOk
    \/ LegacyCommitFail

SpecLegacy == InitLegacy /\ [][NextLegacy]_vars

----------------------------------------------------------------------------
(* EntityExtractor._extract_entities on any sequence of labelled tokens *)

\* the labels of model.config.id2label for the two entity types
EntityLabels ==
    { <<"O", "">>, <<"B", "COMPANY">>, <<"I", "COMPANY">>,
      <<"B", "POSITION">>, <<"I", "POSITION">> }

\* the word at position i of the text
WordAt(i) == <<"w", DigitChars[i + 1]>>

\* the texts of up to MaxTokens tokens: at each position a word of the text
\* or a special token (start == end), with any label
LabelledTexts ==
    UNION { { [i \in 1..n |->
                 Token(IF special[i] THEN <<>> ELSE WordAt(i), label[i])] :
              special \in [1..n -> BOOLEAN], label \in [1..n -> EntityLabels] } :
            n \in 0..MaxTokens }

InitEntities ==
    /\ eTokens \in LabelledTexts
    /\ eEntities = NoEntities
    /\ ePc = "call"
    /\ DbIdle
    /\ MergeIdle
    /\ SchedIdle
    /\ FetchIdle
    /\ CleanIdle
    /\ PartsIdle
    /\ LegacyIdle
    /\ OverlapIdle

\* lines 205-206: the two calls of _extract_entities in predict
ExtractEntities ==
    /\ ePc = "call"
    /\ eEntities' = [companies |-> _extract_entities(eTokens, "COMPANY"),
                     positions |-> _extract_entities(eTokens, "POSITION")]
    /\ ePc' = "returned"
    /\ UNCHANGED eTokens
    /\ UNCHANGED <<mergeVars, cleanVars, partsVars, legacyVars, dbVars, schedVars, fetchVars, overlapVars>>

NextEntities == ExtractEntities

SpecEntities == InitEntities /\ [][NextEntities]_vars

----------------------------------------------------------------------------
(* scheduler.py: cycles that overlap.  /trigger-email-fetch (lines 46-52)  *)
(* starts scheduled_email_fetch as a task each time it is called, and      *)
(* /my-email-fetch (lines 54-60) awaits async_process_user_emails itself   *)

\* lines 48 and 31-42: the endpoint starts a cycle; the cycle reads the
\* users, makes its own semaphore (line 35) and starts one limited_worker
\* per user
TriggerEmailFetch(c) ==
    /\ oCyc[c] = "off"
    /\ oCyc' = [oCyc EXCEPT ![c] = "gather"]
    /\ oSem' = [oSem EXCEPT ![c] = max_concurrent_users]
    /\ oWpc' = [oWpc EXCEPT ![c] = [u \in OverlapUsers |-> "pending"]]
    /\ UNCHANGED oMy
    /\ UNCHANGED <<mergeVars, cleanVars, partsVars, legacyVars, dbVars, schedVars, fetchVars, entityVars>>

\* line 38: the worker of cycle c enters `async with semaphore`
WorkerAcquire(c, u) ==
    /\ oWpc[c][u] = "pending"
    /\ CanAcquire(oSem[c])
    /\ oSem' = [oSem EXCEPT ![c] = @ - 1]
    /\ oWpc' = [oWpc EXCEPT ![c][u] = "running"]
    /\ UNCHANGED <<oCyc, oMy>>
    /\ UNCHANGED <<mergeVars, cleanVars, partsVars, legacyVars, dbVars, schedVars, fetchVars, entityVars>>

\* lines 16-27: line 18 raises, the handler of line 26 logs the error and
\* the worker waits for its session to close
WorkerBody(c, u) ==
    /\ oWpc[c][u] = "running"
    /\ oWpc' = [oWpc EXCEPT ![c][u] = "closing"]
    /\ UNCHANGED <<oCyc, oSem, oMy>>
    /\ UNCHANGED <<mergeVars, cleanVars, partsVars, legacyVars, dbVars, schedVars, fetchVars, entityVars>>

\* lines 16 and 38-39: the session has closed and the permit is given back
WorkerRelease(c, u) ==
    /\ oWpc[c][u] = "closing"
    /\ oSem' = [oSem EXCEPT ![c] = Release(@)]
    /\ oWpc' = [oWpc EXCEPT ![c][u] = "resolved"]
    /\ UNCHANGED <<oCyc, oMy>>
    /\ UNCHANGED <<mergeVars, cleanVars, partsVars, legacyVars, dbVars, schedVars, fetchVars, entityVars>>

\* lines 42-43: the gather of cycle c returns
CycleDone(c) ==
    /\ oCyc[c] = "gather"
    /\ \A u \in OverlapUsers : oWpc[c][u] = "resolved"
    /\ oCyc' = [oCyc EXCEPT ![c] = "done"]
    /\ UNCHANGED <<oSem, oWpc, oMy>>
    /\ UNCHANGED <<mergeVars, cleanVars, partsVars, legacyVars, dbVars, schedVars, fetchVars, entityVars>>

\* lines 55-57: /my-email-fetch of user u enters async_process_user_emails
\* (no semaphore is taken)
MyEmailFetch(u) ==
    /\ oMy[u] = "off"
    /\ oMy' = [oMy EXCEPT ![u] = "running"]
    /\ UNCHANGED <<oCyc, oSem, oWpc>>
    /\ UNCHANGED <<mergeVars, cleanVars, partsVars, legacyVars, dbVars, schedVars, fetchVars, entityVars>>

\* lines 16-27 and 58: the pipeline has ended and the endpoint answers
MyEmailFetchEnds(u) ==
    /\ oMy[u] = "running"
    /\ oMy' = [oMy EXCEPT ![u] = "done"]
    /\ UNCHANGED <<oCyc, oSem, oWpc>>
    /\ UNCHANGED <<mergeVars, cleanVars, partsVars, legacyVars, dbVars, schedVars, fetchVars, entityVars>>

InitOverlap ==
    /\ OverlapIdle
    /\ DbIdle
    /\ MergeIdle
    /\ SchedIdle
    /\ FetchIdle
    /\ CleanIdle
    /\ PartsIdle
    /\ LegacyIdle
    /\ EntityIdle

NextOverlap ==
    \/ \E c \in Cycles :
          \/ TriggerEmailFetch(c)
          \/ CycleDone(c)
          \/ \E u \in OverlapUsers :
                \/ WorkerAcquire(c, u)
                \/ WorkerBody(c, u)
                \/ WorkerRelease(c, u)
    \/ \E u \in OverlapUsers :
          \/ MyEmailFetch(u)
          \/ MyEmailFetchEnds(u)

SpecOverlap == InitOverlap /\ [][NextOverlap]_vars

----------------------------------------------------------------------------
(* Claims about _process_entries *)

\* what the claims call the case-folded company and the title of an input
CompanyOf(app) == lower(strip(Get(app, "company").v))
TitleOf(app)   == lower(strip(Get(app, "job_title").v))
IsSentinelTitle(app) == TitleOf(app) \in {<<>>, unknown_placeholder}

Returned == mPc = "returned" /\ ~mOut.raised

OutFor(c) == { i \in 1..Len(mOut.apps) : mOut.apps[i].company = c }
InFor(c)  == { i \in 1..Len(mApps) : CompanyOf(mApps[i]) = c }
KnownFor(c) == { i \in InFor(c) : ~IsSentinelTitle(mApps[i]) }
Min(S) == CHOOSE x \in S : \A y \in S : x <= y

\* C4: when _process_entries returns on a batch holding, for one case-folded
\* company, an entry with the sentinel title (or no title) and an entry with
\* a known title, in either order, its output holds exactly one entry for
\* that company and that entry carries a known title of the batch.
C4_MergePrefersKnownTitle ==
    Returned =>
      \A c \in { CompanyOf(mApps[i]) : i \in 1..Len(mApps) } \ {<<>>} :
        (KnownFor(c) # {} /\ InFor(c) \ KnownFor(c) # {}) =>
          /\ Cardinality(OutFor(c)) = 1
          /\ \A o \in OutFor(c) :
                /\ mOut.apps[o].job_title # unknown_placeholder
                /\ \E i \in KnownFor(c) : mOut.apps[o].job_title = TitleOf(mApps[i])

\* a batch whose first entry for acme has no title and whose second has one,
\* merged
C4_Witness ==
    /\ Returned
    /\ Len(mApps) = 2
    /\ CompanyOf(mApps[1]) = CompanyOf(mApps[2])
    /\ IsSentinelTitle(mApps[1]) /\ ~IsSentinelTitle(mApps[2])
    /\ Len(mOut.apps) = 1
    /\ mOut.apps[1].job_title = TitleOf(mApps[2])

\* C5: when _process_entries returns on a batch holding several entries of
\* one case-folded company with differing known titles, the output entry of
\* that company carries the title of the earliest of them in input order,
\* whatever comes before or after it.
C5_FirstSeenKnownTitleWins ==
    Returned =>
      \A c \in { CompanyOf(mApps[i]) : i \in 1..Len(mApps) } \ {<<>>} :
        (\E i, j \in KnownFor(c) : TitleOf(mApps[i]) # TitleOf(mApps[j])) =>
          \A o \in OutFor(c) :
            mOut.apps[o].job_title = TitleOf(mApps[Min(KnownFor(c))])

\* sentinel, then two differing known titles of the same company: the first
\* known title is kept
C5_Witness ==
    /\ Returned
    /\ Len(mApps) = 3
    /\ InFor(CompanyOf(mApps[1])) = {1, 2, 3}
    /\ IsSentinelTitle(mApps[1])
    /\ KnownFor(CompanyOf(mApps[1])) = {2, 3}
    /\ TitleOf(mApps[2]) # TitleOf(mApps[3])
    /\ Len(mOut.apps) = 1
    /\ mOut.apps[1].job_title = TitleOf(mApps[2])

----------------------------------------------------------------------------
(* Claims about insert_job_applications *)

Triple(r) == <<r.user_email, r.company, r.job_title>>

AllRows == storage \cup UNION { pend[p] : p \in Sessions }

\* C1: whatever calls of insert_job_applications have run, of any users and
\* inputs, one after another or interleaved, storage holds at most one row
\* per (user_email, company, job_title).
C1_OneRowPerTriple ==
    \A r1, r2 \in storage : Triple(r1) = Triple(r2) => r1 = r2

\* a second call has offered a triple that the first call stored, and has
\* returned having inserted nothing
C1_Witness ==
    /\ clock = 2 /\ faults = 0
    /\ \E r \in storage :
          /\ storage = {r}
          /\ r.applied_date = 1
          /\ r.job_title = unknown_placeholder
    /\ \E p \in Sessions : ses[p].path = "normal" /\ ses[p].ret = <<0, 1>>

\* C2: when a call of insert_job_applications has completed (returned by
\* line 54, none of its storage operations having failed) and the next call
\* is made with the same list for the same user, no other call in between,
\* that call returns an inserted count of 0 and leaves storage as it was.
C2_SecondCallInsertsNothing ==
    (cur.repeat /\ ses[cur.p].pc = "idle") =>
        /\ ses[cur.p].ret[1] = 0
        /\ storage = cur.snap

\* a list that stored two rows has been submitted a second time
C2_Witness ==
    /\ cur.repeat /\ ses[cur.p].pc = "idle"
    /\ ses[cur.p].path = "normal"
    /\ ses[cur.p].ret = <<0, 2>>
    /\ Cardinality(storage) = 2

\* the entries of the insert statement of session p whose triple is already
\* stored, as the statement sees storage
Conflicting(p) ==
    { i \in 1..Len(ses[p].final) :
        Triple(ses[p].final[i]) \in { Triple(r) : r \in storage \cup pend[p] } }

InsertStatementRan(p) ==
    ses[p].pc = "insert" /\ ses'[p].pc \notin {"insert", "rollback_insert"}

\* C3: when the insert statement of a chunk runs and the triple of one of
\* its entries is already stored, the statement does not fail for it, the
\* stored row of that triple is left as it is (applied_date included), no
\* row is added for the entry, and the entry is not counted as inserted:
\* the call's inserted count grows by the other entries only, and the call
\* returns len(valid_apps) minus the inserted count as skipped.
C3_ConflictIsSkipped ==
    [][\A p \in Sessions :
         /\ InsertStatementRan(p) =>
               /\ \A i \in Conflicting(p) :
                     { r \in AllRows' : Triple(r) = Triple(ses[p].final[i]) }
                       = { r \in AllRows : Triple(r) = Triple(ses[p].final[i]) }
               /\ ses'[p].total - ses[p].total
                     = Len(ses[p].final) - Cardinality(Conflicting(p))
               /\ pend[p] \subseteq pend'[p]
         /\ (ses[p].pc = "final_commit" /\ ses'[p].path = "normal"
                /\ ses'[p].pc = "idle") =>
               ses'[p].ret = <<ses[p].total, Len(ses[p].valid) - ses[p].total>>
      ]_vars

\* an insert statement of two entries has run, one of them already stored
\* with an earlier applied_date: one row was inserted
C3_Witness ==
    \E p \in Sessions :
        /\ ses[p].pc = "commit"
        /\ Len(ses[p].final) = 2
        /\ ses[p].total = 1
        /\ Cardinality(pend[p]) = 1
        /\ \E i \in 1..2 : \E r \in storage :
              /\ Triple(r) = Triple(ses[p].final[i])
              /\ r.applied_date < ses[p].final[i].applied_date

KnownTitleStored(rows, user_email, company) ==
    \E x \in rows :
        /\ x.user_email = user_email
        /\ x.company = company
        /\ x.job_title # unknown_placeholder

\* C6: with the pipeline runs made one after another, once storage holds a
\* row with a known title for (user, company), no step of a later run adds
\* a row with the sentinel title for that (user, company), committed or not.
C6_NoDowngradeAcrossRuns ==
    [][\A r \in AllRows' \ AllRows :
         r.job_title = unknown_placeholder =>
            ~KnownTitleStored(storage, r.user_email, r.company)]_vars

\* a run that offered acme without a title, after a run that stored a title
\* for acme for the same user, has returned having inserted nothing
C6_Witness ==
    /\ ses[cur.p].pc = "idle"
    /\ ses[cur.p].path = "normal"
    /\ ses[cur.p].ret = <<0, 1>>
    /\ faults = 0
    /\ Len(cur.apps) = 1
    /\ "job_title" \notin DOMAIN cur.apps[1]
    /\ \E r \in storage :
          /\ storage = {r}
          /\ r.user_email = cur.user
          /\ r.company = CompanyOf(cur.apps[1])
          /\ r.job_title # unknown_placeholder

----------------------------------------------------------------------------
(* Claims about the orchestrator *)

\* the workers inside `async with semaphore`
Running == { u \in 1..MaxUsers : wpc[u] \in {"running", "closing"} }

\* C7: within one scheduled_email_fetch with limit N = max_concurrent_users
\* and more than N users, at no instant are more than N per-user pipelines
\* running.
C7_AtMostNRunning ==
    Cardinality(Running) <= max_concurrent_users

\* N pipelines run at once while another user waits for a permit
C7_Witness ==
    /\ Cardinality(users) > max_concurrent_users
    /\ Cardinality(Running) = max_concurrent_users
    /\ \E u \in users : wpc[u] = "pending"
    /\ sem = 0

\* C8: the failure of a user's pipeline is caught inside that pipeline: no
\* exception leaves a worker, the gather never raises, and when the cycle
\* is complete every user's pipeline has run to its end.
C8_FailureStaysInPipeline ==
    /\ \A u \in 1..MaxUsers : wpc[u] # "escaped"
    /\ cyc # "raised"
    /\ cyc = "done" => \A u \in users : wpc[u] = "resolved"

\* one user's pipeline has failed and ended while another is still to run,
\* still running, or closing its session
C8_Witness ==
    /\ cyc = "gather"
    /\ \E u, v, w \in users :
          /\ wpc[u] = "resolved"
          /\ wpc[v] = "closing"
          /\ wpc[w] = "pending"

\* C9: for any number of users and limit N >= 1, every user's pipeline
\* eventually gets a permit and runs to its end, the cycle then completes,
\* and it completes only when every pipeline has resolved.
C9_CycleCompletes ==
    /\ \A u \in 1..MaxUsers : (wpc[u] = "pending") ~> (wpc[u] = "resolved")
    /\ (cyc = "gather") ~> (cyc = "done")
    /\ [](cyc = "done" => \A u \in users : wpc[u] = "resolved")

\* a cycle over more users than permits has completed
C9_Witness ==
    /\ cyc = "done"
    /\ Cardinality(users) > max_concurrent_users
    /\ sem = max_concurrent_users

----------------------------------------------------------------------------
(* Claims about fetch_and_classify_emails *)

\* the message matches the rejection pattern: its subject, a space and the
\* cleaned body that its own payload gives ("" when it gives none)
OwnRejection(msg) ==
    LET own == BodyAfter(msg, Str(<<>>))
    IN  is_rejection(SubjectOf(msg),
                     IF own.t = "str" THEN clean_html_content(own.v)
                     ELSE <<>>)

\* the messages handled so far
Handled == 1..Len(fLog)

\* C10: for every message whose subject + " " + body matches the rejection
\* pattern, neither classify_email nor extractor.predict is invoked for the
\* message and the message adds no entry to `confirmations`; the entries
\* of `confirmations` are those of the messages that were not skipped.
C10_RejectionShortCircuit ==
    /\ \A i \in Handled :
          OwnRejection(messages[i]) =>
              /\ ~fLog[i].classified
              /\ ~fLog[i].predicted
              /\ ~fLog[i].appended
    /\ Len(confirmations) = Cardinality({ i \in Handled : fLog[i].appended })

\* the function has returned after a message with a rejection phrase in
\* its body reached the test of line 315 and was skipped, and a later
\* message was classified, extracted and appended
C10_Witness ==
    /\ fPc = "returned"
    /\ \E i \in Handled, j \in Handled :
          /\ i < j
          /\ messages[i].data = Str(NotMovingForward)
          /\ OwnRejection(messages[i])
          /\ fLog[i].tested
          /\ ~fLog[i].classified
          /\ fLog[j].appended

----------------------------------------------------------------------------
(* Claims about the per-user pipeline *)

\* C11: when the cycle of one user whose window holds the three messages
\* (a confirmation naming Acme and Software Engineer, a rejection, a
\* newsletter) has finished, storage holds exactly one record, with company
\* "acme" and job title "software engineer".
C11_EndToEndOneRecord ==
    (cyc = "done" /\ users = {1} /\ mailbox[1] = EndToEndMessages) =>
        /\ Cardinality(storage) = 1
        /\ \A r \in storage :
              /\ r.company = <<"a","c","m","e">>
              /\ r.job_title = <<"s","o","f","t","w","a","r","e"," ",
                                "e","n","g","i","n","e","e","r">>

----------------------------------------------------------------------------
(* Claims about insert_job_applications on lists of several chunks *)

\* the rows that the call in progress has made (calls one after another:
\* its utcnow() is the clock)
ThisCallRows(rows) == { r \in rows : r.applied_date = clock }

\* the entries of the chunk that session p is at
ChunkRows(p) == Range(Chunk(ses[p].valid, ses[p].batch_idx))

\* the write of the chunk that session p is at has failed (its insert
\* statement, its commit, or every attempt of its select) and the failure
\* is about to be handled
ChunkWriteFailed(p) ==
    /\ Len(ses[p].valid) > batch_size
    /\ \/ ses[p].pc = "rollback_insert"
       \/ ses[p].pc = "rollback" /\ ses[p].cause \in {"commit", "filter"}

\* the number of rows that the chunks before the one session p is at have
\* inserted: the call's count so far, which at a failed commit already
\* holds the rows of the chunk being committed
InsertedBefore(p) ==
    IF ses[p].pc = "rollback" /\ ses[p].cause = "commit"
    THEN ses[p].total - Cardinality(pend[p])
    ELSE ses[p].total

\* C12: when the list spans several chunks and the write of chunk k fails,
\* then once the failure is handled none of the rows of chunk k is stored
\* or pending, and the rows that the chunks before k inserted are all
\* committed; committed rows are never removed.
C12_ChunkScopedRollback ==
    [][/\ storage \subseteq storage'
       /\ \A p \in Sessions :
             (ChunkWriteFailed(p) /\ ses'[p] # ses[p]) =>
                 /\ ChunkRows(p) \cap (storage' \cup pend'[p]) = {}
                 /\ Cardinality(ThisCallRows(storage')) = InsertedBefore(p)
      ]_vars

\* the insert statement of the second chunk of a list has failed after the
\* first chunk was committed: the call has returned with the rows of the
\* first chunk stored
C12_Witness ==
    /\ clock = 1
    /\ faults = 1
    /\ Cardinality(storage) = batch_size
    /\ \E p \in Sessions :
          /\ ses[p].pc = "idle"
          /\ ses[p].path = "normal"
          /\ ses[p].ret = <<batch_size, 1>>

\* session p has returned from the latest call
ReturnedFromCall(p) ==
    /\ cur.p = p
    /\ ses[p].pc = "idle"
    /\ ses[p].path # "none"

\* C13: whenever insert_job_applications has returned, the inserted count
\* it returned is the number of rows that the call added to storage, also
\* when an earlier chunk was committed and a later chunk failed.
C13_InsertedCountIsRowsAdded ==
    \A p \in Sessions :
        ReturnedFromCall(p) =>
            ses[p].ret[1] = Cardinality(storage \ cur.snap)

\* C14: whenever insert_job_applications has returned, the inserted count
\* and the skipped count add up to the number of input records: the skipped
\* count holds the conflicts and the records dropped for lacking a company.
C14_CountsCoverInput ==
    \A p \in Sessions :
        ReturnedFromCall(p) =>
            ses[p].ret[1] + ses[p].ret[2] = Len(cur.apps)

----------------------------------------------------------------------------
(* Claims about the retry of _process_batch_with_retry *)

\* an attempt of the batch operation of session p raises in this step
AttemptFailed(p) ==
    /\ ses[p].pc = "filter"
    /\ ses'[p].pc \in {"filter", "rollback"}
    /\ ses'[p] # ses[p]

\* C15: the batch operation under the retry controller is attempted at most
\* max_retries (3) times: an attempt that raises is followed by the attempt
\* with the next number while fewer than max_retries attempts were made;
\* when the attempt numbered max_retries raises, the failure reaches the
\* handler of insert_job_applications, which rolls back and returns through
\* its except branch with no further attempt.
C15_BoundedRetry ==
    [][\A p \in Sessions :
         /\ ses'[p].attempt <= max_retries
         /\ (AttemptFailed(p) /\ ses[p].attempt < max_retries) =>
               /\ ses'[p].pc = "filter"
               /\ ses'[p].batch_idx = ses[p].batch_idx
               /\ ses'[p].attempt = ses[p].attempt + 1
         /\ (AttemptFailed(p) /\ ses[p].attempt >= max_retries) =>
               /\ ses'[p].pc = "rollback"
               /\ ses'[p].cause = "filter"
         /\ (ses[p].pc = "rollback" /\ ses[p].cause = "filter"
                /\ ses'[p] # ses[p]) =>
               /\ ses'[p].pc = "idle"
               /\ ses'[p].path = "except"
               /\ ses'[p].ret = <<0, ses[p].n_apps>>
      ]_vars

\* the third attempt of a batch has raised and the failure is at the
\* handler of insert_job_applications
C15_Witness ==
    \E p \in Sessions :
        /\ ses[p].pc = "rollback"
        /\ ses[p].cause = "filter"
        /\ ses[p].attempt = max_retries

\* C16: when the insert statement of a chunk has raised on an attempt
\* before the last one of the budget, the chunk is attempted again (the
\* same chunk, with the next attempt number), so that an insert that
\* succeeds on the later attempt adds the chunk's rows.
C16_InsertFailureIsRetried ==
    [][\A p \in Sessions :
         (ses[p].pc = "rollback_insert" /\ ses[p].attempt < max_retries
            /\ ses'[p] # ses[p]) =>
               /\ ses'[p].pc \in {"filter", "insert"}
               /\ ses'[p].batch_idx = ses[p].batch_idx
               /\ ses'[p].attempt = ses[p].attempt + 1
      ]_vars

----------------------------------------------------------------------------
(* Claims about the classification of a message *)

\* the classifier was called for the message of log entry e and fails on
\* its first two calls
FailsTwice(e) ==
    /\ e.classified
    /\ e.attempts[1] = "RuntimeError"
    /\ e.attempts[2] = "RuntimeError"

\* C17: when the classify call for a message fails on its first and second
\* attempt and succeeds on the third, the label given to the message is the
\* result of the third attempt.
C17_ClassifierRetry ==
    \A i \in 1..Len(fLog) :
        (FailsTwice(fLog[i]) /\ fLog[i].attempts[3] # "RuntimeError") =>
            fLog[i].prediction = fLog[i].attempts[3]

\* the iteration of this step calls the classifier, which fails on every
\* call
ClassifyFailsNow ==
    /\ Len(fLog') = Len(fLog) + 1
    /\ FailsTwice(fLog'[Len(fLog')])
    /\ fLog'[Len(fLog')].attempts[3] = "RuntimeError"

\* C18: a message whose classification call fails on every attempt is not
\* treated as a confirmation: it gets no label, the extractor is not run on
\* it, nothing is appended to the confirmations (so there is nothing of it
\* to store) and storage is left alone.
C18_FailSafeClassification ==
    [][ClassifyFailsNow =>
          /\ fLog'[Len(fLog')].prediction # "confirmation"
          /\ ~fLog'[Len(fLog')].predicted
          /\ ~fLog'[Len(fLog')].appended
          /\ confirmations' = confirmations
          /\ storage' = storage
      ]_vars

\* a message that is no rejection was classified, the classifier failed on
\* every call, and a message before it was appended as a confirmation
C18_Witness ==
    \E i \in 2..Len(fLog) :
        /\ fLog[i].classified
        /\ fLog[i].attempts = <<"RuntimeError", "RuntimeError", "RuntimeError">>
        /\ fLog[i].error = "RuntimeError"
        /\ Len(confirmations) = 1

----------------------------------------------------------------------------
(* Claims about clean_html_content *)

\* C19: for every text x, clean_html_content(clean_html_content(x)) is
\* clean_html_content(x), texts longer than truncate_length included.
C19_CleanIsIdempotent == cPc = "twice" => cTwice = cOnce

----------------------------------------------------------------------------
(* Claims about the users' rows *)

\* the rows of user u among `rows`
OwnRows(rows, u) == { r \in rows : r.user_email = u }

\* the select of session p has answered in this step
SelectAnswered(p) ==
    ses[p].pc = "filter" /\ ses'[p].pc \notin {"filter", "rollback"}

\* C20: what a call for user A does at storage depends on A's rows only:
\* the sentinel-title entries that the select of
\* _filter_conflicting_unknowns leaves in the batch, the rows that the
\* insert statement adds and the count it reports are the ones obtained
\* from the rows of A alone, whatever rows other users have.
C20_DedupIsPerUser ==
    [][\A p \in Sessions :
         LET f == ses[p]
             own == OwnRows(Visible(p), f.user)
             kept == _filter_conflicting_unknowns(
                        own, unknown_entries(Chunk(f.valid, f.batch_idx)))
             added == InsertedRows(own, f.final)
         IN  /\ (SelectAnswered(p) /\ ses'[p].pc = "insert") =>
                   ses'[p].final = f.final \o kept
             /\ (SelectAnswered(p) /\ ses'[p].pc # "insert") =>
                   f.final \o kept = <<>>
             /\ InsertStatementRan(p) =>
                   /\ pend'[p] = pend[p] \cup { f.final[i] : i \in added }
                   /\ ses'[p].total = f.total + Cardinality(added)
      ]_vars

\* a user has a row with the sentinel title for a company for which
\* another user had a row with a known title before
C20_Witness ==
    \E r1, r2 \in storage :
        /\ r1.user_email # r2.user_email
        /\ r1.company = r2.company
        /\ r1.job_title = unknown_placeholder
        /\ r2.job_title # unknown_placeholder
        /\ r2.applied_date < r1.applied_date

----------------------------------------------------------------------------
(* Claims about the loop of fetch_and_classify_emails *)

\* the iteration of this step ends with an error
MessageFailsNow ==
    /\ Len(fLog') = Len(fLog) + 1
    /\ fLog'[Len(fLog')].error # "none"

\* C21: an error raised while one message is fetched, decoded, classified
\* or extracted does not end fetch_and_classify_emails: the loop goes on
\* with the same list of messages, and the function returns only when
\* every message of the list has had its iteration.
C21_PerMessageIsolation ==
    [][/\ MessageFailsNow => (fPc' = "loop" /\ messages' = messages)
       /\ fPc' = "returned" => Len(fLog') = Len(messages')
       /\ fPc' = "raised" => fLog' = <<>>
      ]_vars

\* the function has returned, the iteration of the first message ended
\* with an error and the second message was appended as a confirmation
C21_Witness ==
    /\ fPc = "returned"
    /\ Len(fLog) = 2
    /\ fLog[1].error # "none"
    /\ fLog[2].appended

\* the number of messages on the pages behind the nextPageToken
RECURSIVE CountMessages(_)
CountMessages(pages) ==
    IF pages = <<>> THEN 0
    ELSE Len(pages[1]) + CountMessages(SubSeq(pages, 2, Len(pages)))

\* C22: when fetch_and_classify_emails has returned after a list call that
\* succeeded, every message of every page of the window has had its
\* iteration: the pages behind a nextPageToken were requested too.
C22_FollowsContinuationTokens ==
    (fPc = "returned" /\ (messages # <<>> \/ laterPages # <<>>)) =>
        Len(fLog) = Len(messages) + CountMessages(laterPages)

----------------------------------------------------------------------------
(* Claims about extract_body_from_parts *)

\* the leaves of one MIME type that have content, in the order of the tree
LeavesWithContent(parts, mime_type) ==
    LET Has(part) == /\ part.parts = <<>>
                     /\ part.mimeType = mime_type
                     /\ part.data # Str(<<>>)
    IN  SelectSeq(Visit(parts), Has)

\* C23: when the part tree has a text/plain leaf with content, the body
\* extracted is the normalized text of the first such leaf; when it has
\* none, the body is the normalized text of the first text/html leaf with
\* content.
C23_PrefersFirstPlainLeaf ==
    pPc = "returned" =>
        LET plain == LeavesWithContent(pParts, "text/plain")
            html == LeavesWithContent(pParts, "text/html")
        IN  IF plain # <<>>
            THEN pBody = clean_html_content(plain[1].data.v)
            ELSE IF html # <<>>
            THEN pBody = clean_html_content(html[1].data.v)
            ELSE pBody = <<>>

----------------------------------------------------------------------------
(* Claims about the candidates of a message *)

\* the entity of one type that occurs first among the labelled tokens: the
\* words from the first token labelled B- of the type up to the last of the
\* tokens labelled I- of the type that follow it; None when no token is
\* labelled B- of the type
FirstOccurring(tokens, entity_type) ==
    LET begins == { i \in 1..Len(tokens) :
                      /\ tokens[i].w # <<>>
                      /\ tokens[i].label = <<"B", entity_type>> }
    IN  IF begins = {} THEN None
        ELSE LET b == LeastOf(begins)
                 e == GreatestOf({ j \in b..Len(tokens) :
                         \A k \in (b + 1)..j :
                            tokens[k].label = <<"I", entity_type>> })
             IN  Str(Join([k \in 1..(e - b + 1) |-> tokens[b + k - 1].w]))

\* C24: the tuple appended for a confirmation carries the company and the
\* position that occur first in the text among the ones the extractor
\* found, and None for a kind of which it found none.
C24_FirstOccurrenceTieBreak ==
    [][(Len(fLog') = Len(fLog) + 1 /\ fLog'[Len(fLog')].appended) =>
          LET tokens == fLog'[Len(fLog')].result.tokens
          IN  /\ Len(confirmations') = Len(confirmations) + 1
              /\ confirmations'[Len(confirmations')][2]
                    = FirstOccurring(tokens, "COMPANY")
              /\ confirmations'[Len(confirmations')][3]
                    = FirstOccurring(tokens, "POSITION")
      ]_vars

\* a confirmation was appended from a text with two companies and no
\* position: it carries the first company and no position
C24_Witness ==
    \E i \in 1..Len(fLog) :
        /\ fLog[i].appended
        /\ Len(fLog[i].result.companies) = 2
        /\ fLog[i].result.positions = <<>>
        /\ confirmations[1][2] = Str(Acme)
        /\ confirmations[1][3] = None

----------------------------------------------------------------------------
(* Claims about the legacy insert_job_applications *)

----------------------------------------------------------------------------
(* More claims about _process_entries *)

\* the case-folded, trimmed companies of the input that are not empty
InputCompanies ==
    { CompanyOf(mApps[i]) : i \in 1..Len(mApps) } \ { <<>> }

\* C26: when _process_entries returns, its output has exactly one entry for
\* each distinct non-empty case-folded, trimmed company of the input, and
\* no other entry: none for an input whose company is empty or absent.
C26_OneEntryPerCompany ==
    Returned =>
        /\ \A c \in InputCompanies : Cardinality(OutFor(c)) = 1
        /\ \A o \in 1..Len(mOut.apps) :
              mOut.apps[o].company \in InputCompanies
        /\ Len(mOut.apps) = Cardinality(InputCompanies)

\* three inputs, the companies of two differing in case and surrounding
\* whitespace only and the third empty after trimming or absent: one entry
C26_Witness ==
    /\ Returned
    /\ Len(mApps) = 3
    /\ \E i, j, k \in 1..3 :
          /\ Get(mApps[i], "company") # Get(mApps[j], "company")
          /\ CompanyOf(mApps[i]) = CompanyOf(mApps[j])
          /\ CompanyOf(mApps[i]) # <<>>
          /\ CompanyOf(mApps[k]) = <<>>
    /\ Len(mOut.apps) = 1

\* a text that is not empty, has no upper-case letter, and neither starts
\* nor ends with whitespace
IsLowerTrimmed(s) ==
    /\ s # <<>>
    /\ s[1] \notin Whitespace
    /\ s[Len(s)] \notin Whitespace
    /\ \A i \in 1..Len(s) : s[i] \notin Uppercase

\* the inputs of company c that supply a title: a job_title that is not
\* empty after trimming
TitledFor(c) == { i \in InFor(c) : TitleOf(mApps[i]) # <<>> }

\* the entries that _process_entries returns, which are the rows that
\* insert_job_applications writes, have a company and a title that are not
\* empty, lower-cased and trimmed
EntriesNormalized ==
    \A o \in 1..Len(mOut.apps) :
        /\ IsLowerTrimmed(mOut.apps[o].company)
        /\ IsLowerTrimmed(mOut.apps[o].job_title)

\* C27 as stated: every entry to be written has a non-empty, lower-cased,
\* trimmed company and title, and its title is the sentinel exactly when
\* no input of its company supplied a title.
C27_SentinelIffNoTitle ==
    Returned =>
        /\ EntriesNormalized
        /\ \A o \in 1..Len(mOut.apps) :
              (mOut.apps[o].job_title = unknown_placeholder)
                <=> (TitledFor(mOut.apps[o].company) = {})

\* C27, amended: every entry to be written has a non-empty, lower-cased,
\* trimmed company and title, and its title is the sentinel exactly when
\* no input of its company supplied a title other than the sentinel itself
\* in some spelling of case and surrounding whitespace.
C27_RowsNormalized ==
    Returned =>
        /\ EntriesNormalized
        /\ \A o \in 1..Len(mOut.apps) :
              (mOut.apps[o].job_title = unknown_placeholder)
                <=> (KnownFor(mOut.apps[o].company) = {})

\* an input without title, one with a blank title and one with a title in
\* upper case and whitespace, of three companies or fewer: the output has
\* an entry with the sentinel and one with the title lower-cased
C27_Witness ==
    /\ Returned
    /\ \E i \in 1..Len(mApps) :
          /\ CompanyOf(mApps[i]) # <<>>
          /\ Get(mApps[i], "job_title").v # TitleOf(mApps[i])
          /\ TitleOf(mApps[i]) # <<>>
          /\ \E o \in OutFor(CompanyOf(mApps[i])) :
                mOut.apps[o].job_title = TitleOf(mApps[i])
    /\ \E o \in 1..Len(mOut.apps) :
          /\ mOut.apps[o].job_title = unknown_placeholder
          /\ TitledFor(mOut.apps[o].company) = {}

----------------------------------------------------------------------------
(* Claims about entries without a company *)

\* no storage operation has failed so far
NoStorageFailure == faults = 0

\* C28: when insert_job_applications has returned and no storage operation
\* has failed, every entry of the call that has a company is
\* persisted for the user, whatever the other entries of the call are: an
\* entry whose company is absent, None or empty is dropped alone.
C28_CompanylessIsDroppedAlone ==
    \A p \in Sessions :
        (ReturnedFromCall(p) /\ NoStorageFailure) =>
            \A i \in 1..Len(cur.apps) :
                CompanyOf(cur.apps[i]) # <<>> =>
                    \E r \in storage :
                        /\ r.user_email = cur.user
                        /\ r.company = CompanyOf(cur.apps[i])

----------------------------------------------------------------------------
(* Claims about the semaphore of scheduled_email_fetch *)

\* C29: once the semaphore of a cycle is made, the permits that are free
\* and the permits held add up to N = max_concurrent_users, each pipeline
\* that has started and not resolved holding exactly one, a pipeline that
\* is waiting or has resolved (its body failed or not) holding none; when
\* the cycle has finished all N permits are free.
C29_PermitConservation ==
    cyc \in {"gather", "raised", "done"} =>
        /\ sem \in 0..max_concurrent_users
        /\ sem + Cardinality(Running) = max_concurrent_users
        /\ cyc = "done" => (Running = {} /\ sem = max_concurrent_users)

\* mid-cycle: a pipeline has failed and given its permit back while two
\* others hold theirs
C29_Witness ==
    /\ cyc = "gather"
    /\ \E u \in users : wpc[u] = "resolved"
    /\ Cardinality(Running) = 2
    /\ sem = max_concurrent_users - 2

----------------------------------------------------------------------------
(* Claims about the order of the stages of async_process_user_emails *)

\* fetch_and_classify_emails has handled every message of the window
FetchFinished ==
    /\ fPc = "returned"
    /\ Len(fLog) = Len(messages)

\* insert_job_applications has been called
InsertStarted == cur # NoCall

\* C30: in the cycle of one user, insert_job_applications starts only after
\* every fetched message has been handled to its end, and when the user's
\* pipeline has resolved over a window that holds messages, the messages
\* were all handled and insert_job_applications was called with one entry
\* per confirmation candidate collected from them.
C30_InsertAfterAllMessages ==
    users = {1} =>
        /\ InsertStarted => FetchFinished
        /\ (wpc[1] = "resolved" /\ mailbox[1] # <<>>) =>
              /\ messages = mailbox[1]
              /\ FetchFinished
              /\ InsertStarted
              /\ Len(cur.apps) = Len(confirmations)

----------------------------------------------------------------------------
(* Claims about the message-list call *)

\* the list call of lines 270-276 fails in this step: the function leaves
\* line 270 and does not go on to load the extractor
ListCallFails == fPc = "list" /\ fPc' \notin {"list", "load"}

\* C31: when the message-list call raises, fetch_and_classify_emails
\* returns without raising, its value is None (which the guard of
\* insert_job_applications, lines 28-30, takes as no applications), no
\* message has been handled, no candidate collected and nothing written to
\* storage; after the return nothing more is handled or written.
C31_ListErrorIsTerminal ==
    [][/\ ListCallFails =>
             /\ fPc' = "returned"
             /\ fRet' = None
             /\ fLog' = <<>>
             /\ confirmations' = <<>>
             /\ storage' = storage
       /\ (fPc = "returned" /\ fLog = <<>>) =>
             /\ fPc' = "returned"
             /\ fLog' = <<>>
             /\ confirmations' = confirmations
             /\ storage' = storage
      ]_vars

\* the function has returned None at once: no message was fetched or
\* handled and storage is as it was
C31_Witness ==
    /\ fPc = "returned"
    /\ fRet = None
    /\ messages = <<>>
    /\ fLog = <<>>
    /\ confirmations = <<>>
    /\ storage = {}

----------------------------------------------------------------------------
(* Claims about EntityExtractor._extract_entities *)

\* the tokens of the text: the special tokens are left out
TextTokens == SelectSeq(eTokens, LAMBDA t : t.w # <<>>)

\* the positions among the tokens of the text where a run of the type
\* starts: the tokens labelled B- of the type
RunStarts(entity_type) ==
    { i \in 1..Len(TextTokens) : TextTokens[i].label = <<"B", entity_type>> }

\* the last token of the run that starts at i: the last of the tokens
\* labelled I- of the type that follow i without a gap
RunLast(i, entity_type) ==
    GreatestOf({ j \in i..Len(TextTokens) :
                   \A k \in (i + 1)..j :
                      TextTokens[k].label = <<"I", entity_type>> })

\* the text from the first to the last token of the run that starts at i
RunText(i, entity_type) ==
    Join([k \in 1..(RunLast(i, entity_type) - i + 1) |->
             TextTokens[i + k - 1].w])

\* `entities` holds one entity per run of the type, in the order of the
\* runs, each the text of its run
OneEntityPerRun(entities, entity_type) ==
    /\ Len(entities) = Cardinality(RunStarts(entity_type))
    /\ \A i \in RunStarts(entity_type) :
          entities[Cardinality({ b \in RunStarts(entity_type) : b <= i })]
              = RunText(i, entity_type)

\* C32: over any sequence of token labels, _extract_entities returns one
\* entity for each maximal run of a B- token of the type followed by
\* consecutive I- tokens of the type, covering the text from the first to
\* the last token of the run, in the order of occurrence: a new B- closes
\* the entity being built, an I- with no entity being built gives nothing,
\* and an entity open at the end of the sequence is emitted.
C32_SpanMerging ==
    ePc = "returned" =>
        /\ OneEntityPerRun(eEntities.companies, "COMPANY")
        /\ OneEntityPerRun(eEntities.positions, "POSITION")

\* a text of four words labelled B-, I-, B-, I- of one type: two entities
\* of two words each, the second one open at the end of the sequence
C32_Witness ==
    /\ ePc = "returned"
    /\ Len(eTokens) = 4
    /\ \A i \in 1..4 : eTokens[i].w # <<>>
    /\ eTokens[1].label = <<"B", "COMPANY">>
    /\ eTokens[2].label = <<"I", "COMPANY">>
    /\ eTokens[3].label = <<"B", "COMPANY">>
    /\ eTokens[4].label = <<"I", "COMPANY">>
    /\ eEntities.companies =
          << WordAt(1) \o <<" ">> \o WordAt(2),
             WordAt(3) \o <<" ">> \o WordAt(4) >>
    /\ eEntities.positions = <<>>

----------------------------------------------------------------------------
(* Claims about pipelines that run interleaved *)

\* C33: with pipelines of one user interleaved at their awaited storage
\* operations, no commit adds to storage a row with the sentinel title for
\* a (user, company) for which storage already holds a committed row with
\* a known title: no conflicting commit comes between the select of
\* _filter_conflicting_unknowns and the insert that follows it.
C33_NoDowngradeWhenInterleaved ==
    [][\A r \in storage' \ storage :
         r.job_title = unknown_placeholder =>
            ~KnownTitleStored(storage, r.user_email, r.company)]_vars

----------------------------------------------------------------------------
(* Claims about cycles that overlap *)

\* the pipelines (async_process_user_emails) running for user u: those of
\* the cycles, and the one of /my-email-fetch, written as cycle 0
PipelinesOf(u) ==
    { c \in Cycles : oWpc[c][u] \in {"running", "closing"} }
      \cup (IF oMy[u] = "running" THEN {0} ELSE {})

RECURSIVE SumOver(_, _)
SumOver(S, f) ==
    IF S = {} THEN 0
    ELSE LET x == CHOOSE y \in S : TRUE
         IN  f[x] + SumOver(S \ {x}, f)

\* C34: whatever cycles and /my-email-fetch calls overlap, at no instant
\* are more than max_concurrent_users per-user pipelines running in the
\* process, and no user has two pipelines running at once.
C34_ProcessWideBound ==
    /\ SumOver(OverlapUsers,
               [u \in OverlapUsers |-> Cardinality(PipelinesOf(u))])
          <= max_concurrent_users
    /\ \A u \in OverlapUsers : Cardinality(PipelinesOf(u)) <= 1

----------------------------------------------------------------------------
(* Claims about sentinel rows next to known titles *)

\* C35: after any sequence of runs made one after another, storage never
\* holds a row with the sentinel title and a row with a known title for
\* the same (user, company), also when the sentinel row was stored by an
\* earlier run and the known title arrives in a later one.
C35_NoSentinelBesideKnown ==
    \A r \in storage :
        r.job_title = unknown_placeholder =>
            ~KnownTitleStored(storage, r.user_email, r.company)

----------------------------------------------------------------------------
(* Claims about the body of a message *)

\* the body that the payload of msg alone gives: its parts, its inline
\* data, or the empty text when it has neither
BodyOfPayload(msg) == BodyAfter(msg, Str(<<>>))

\* C36: whenever an iteration of the loop gets as far as the pre-filter of
\* line 315, the body it cleans and hands to the pre-filter, the
\* classifier and the extractor is the one of its own message's payload,
\* never the body of an earlier message, also when the message has
\* neither parts nor inline body data.
C36_BodyIsOwn ==
    [][(Len(fLog') = Len(fLog) + 1 /\ fLog'[Len(fLog')].tested) =>
          body' = BodyOfPayload(messages[Len(fLog')])
      ]_vars

----------------------------------------------------------------------------
(* Claims about the intermediate commit *)

\* session p is at the start of a chunk: before its select or its insert
ChunkStarts(p) == ses[p].pc \in {"filter", "insert"}

\* session p handles a failure by a rollback in this step
RollsBack(p) ==
    /\ ses[p].pc \in {"rollback_insert", "rollback"}
    /\ ses'[p] # ses[p]

\* C37: with batch_size 50 and commit_interval 25 every chunk is followed
\* by a commit: whenever a chunk starts, the session holds no uncommitted
\* row, so all rows of the chunks before it are committed; and a rollback
\* made while a chunk is processed removes rows of that chunk only and
\* leaves storage as it is.
C37_CommitAfterEveryChunk ==
    [][\A p \in Sessions :
         /\ ChunkStarts(p)' => pend'[p] = {}
         /\ (ChunkStarts(p)' /\ ses'[p].batch_idx > 0) =>
               Cardinality(ThisCallRows(storage')) = ses'[p].total
         /\ RollsBack(p) =>
               /\ storage' = storage
               /\ pend[p] \subseteq ChunkRows(p)
               /\ pend'[p] = {}
      ]_vars

\* the insert of the second chunk has failed and is about to be rolled
\* back, with the rows of the first chunk committed
C37_Witness ==
    \E p \in Sessions :
        /\ ses[p].pc = "rollback_insert"
        /\ ses[p].batch_idx = batch_size
        /\ ses[p].total = batch_size
        /\ Cardinality(ThisCallRows(storage)) = batch_size
        /\ pend[p] = {}

----------------------------------------------------------------------------
(* Claims about the sessions of pipelines that run at the same time *)

\* C38: a rollback made in one pipeline (after a failed chunk insert or
\* after the retries are exhausted) leaves every row of the other
\* pipelines as it is, committed or not: storage is unchanged and so are
\* the uncommitted rows of every other session.
C38_RollbackIsOwnSession ==
    [][\A p \in Sessions :
         RollsBack(p) =>
            /\ storage' = storage
            /\ \A q \in Sessions \ {p} : pend'[q] = pend[q]
      ]_vars

\* the insert of a pipeline has failed and was rolled back (its chunk had
\* entries, none is pending, nothing was counted) while the pipeline of
\* another user holds uncommitted rows
C38_Witness ==
    \E p \in Sessions, q \in Sessions :
        /\ p # q
        /\ faults = 1
        /\ ses[p].pc = "commit"
        /\ ~ses[p].clean
        /\ ses[p].final # <<>>
        /\ ses[p].total = 0
        /\ pend[p] = {}
        /\ ses[q].pc # "idle"
        /\ ses[q].user # ses[p].user
        /\ pend[q] # {}
        /\ \A r \in pend[q] : r.user_email = ses[q].user

====
